---- MODULE Spec2Model ----
(***************************************************************************)
(* Route optimization engine of NauticalFlow (backend/optimization_solver   *)
(* .py and the optimize endpoint of backend/app.py) as state machines.      *)
(*                                                                          *)
(* Each part of the engine has its own specification over the module's      *)
(* variables; the variables a specification does not use stay at their      *)
(* initial values.                                                          *)
(*                                                                          *)
(*   SpecDecode   random-key decode of a key vector (fitness_func, and the  *)
(*                extraction of the best solution)                          *)
(*   SpecDist     the distance matrix and the geometry of the best route    *)
(*   SpecEta      calculate_detailed_eta                                    *)
(*   SpecCong     calculate_route_congestion                                *)
(*   SpecWeights  the normalization of the objective weights                *)
(*   SpecFit      get_route_metrics and fitness_func on candidates          *)
(*   SpecVessel   get_route_metrics for one vessel after another            *)
(*   SpecGA       the genetic algorithm, to best_solution                   *)
(*   SpecGATwice  two calls of the optimizer with the same arguments        *)
(*   SpecSquare   the genetic algorithm on four stops at a square's corners *)
(*   SpecRank     fitness_func on the candidates of one run                 *)
(*   SpecCall     a call of run_route_optimization, step by step            *)
(*   SpecCallTwice  two calls that differ in their port data                *)
(*   SpecEndpoint the optimize endpoint, from the request to the response   *)
(*   SpecReviews  the port review handlers of backend/app.py, in parallel   *)
(*                                                                          *)
(* Numbers.  Python floats are modelled by integers in fixed units:         *)
(* distances in whole km, gene values k standing for the real k / MaxGene,  *)
(* times in thousandths of a second, metrics in hundredths; fractions are   *)
(* exact.                                                                   *)
(***************************************************************************)
EXTENDS Integers, Sequences, FiniteSets, TLC

VARIABLES
    pc,             \* position of the specification's program
    solution,       \* fitness_func / best_solution: the key vector (genes)
    route_indices,  \* the decoded visiting order (non-origin stop indices)
    port_coords,    \* run_route_optimization: the stops, [lat, lon] each, origin first
    dist,           \* the distance matrix, dist[i][j] in km (indices from 0)
    pair,           \* <<i, j>> of the matrix loop, or the leg of the geometry loop
    sr_last,        \* the last routing query: its arguments, outcome and the value used
    optimized_indices,  \* the best order the geometry step walks
    route_geometry, \* final_route_geometry: the path of the optimized route
    average_speed_kmh,  \* calculate_detailed_eta: the speed argument
    start_datetime,     \* the start time, in ticks
    port_stay_hours,    \* the stay at each port, in ticks
    eta_i,              \* the loop index of calculate_detailed_eta
    current_time,       \* the scheduler's clock, in ticks
    eta_details,        \* the entries produced so far
    ports_data,         \* the per-stop congestion records (a list of dicts; <<>> also for None)
    total_congestion_hours, \* what calculate_route_congestion returned
    weights,            \* run_route_optimization: the weights argument (a dict or None)
    fuel_weight,        \* the normalized weights, each a fraction [num, den]
    time_weight,
    congestion_weight,
    fuel_curve,         \* the vessel's fuel curve: samples of speed and consumption
    co2_factor,         \* the CO2 factor of the fuel, in thousandths
    vessel_specs,       \* the vessel's specifications (a dict or None)
    metrics,            \* fitness_func: the metrics of the candidate evaluated last
    fitness,            \* and its fitness, the fraction [num, den]
    prev_metrics,       \* the metrics and the fitness of the evaluation before
    prev_fitness,
    population,         \* ga_instance: the orders the population decodes to
    generations_completed,  \* ga_instance.generations_completed
    best_evaluated,     \* an order of the highest fitness evaluated in the run
    fitness_rank,       \* the place of each order in the sort by fitness
    run,                \* 1 in the first call of run_route_optimization, 2 in the second
    first_result,       \* the order the first call returned as best
    start_datetime_str, \* run_route_optimization: the start time as the caller gave it
    optimized_metrics,  \* the metrics of the best order (line 402)
    standard_metrics,   \* the metrics of the order as given (line 406)
    exception,          \* the exception a call has raised, "" for none
    first_call,         \* what an earlier call with the same arguments used and returned
    port_reviews,       \* the rows of the table port_reviews
    next_review_id,     \* the primary key the next inserted row gets
    utcnow,             \* datetime.utcnow(), counted in writes to the table
    handler,            \* the review request each worker is handling
    requests_started,   \* the number of review requests received
    request,            \* optimize_route: the JSON payload of the request
    response            \* and its response: the status and the body

decodeVars == <<solution, route_indices>>
distVars == <<port_coords, dist, pair, sr_last, optimized_indices, route_geometry>>
etaVars == <<average_speed_kmh, start_datetime, port_stay_hours, eta_i,
             current_time, eta_details>>
congVars == <<ports_data, total_congestion_hours>>
weightVars == <<weights, fuel_weight, time_weight, congestion_weight>>
fitVars == <<fuel_curve, co2_factor, vessel_specs, metrics, fitness, prev_metrics,
             prev_fitness>>
gaVars == <<population, generations_completed, best_evaluated, fitness_rank, run,
            first_result>>
callVars == <<start_datetime_str, optimized_metrics, standard_metrics, exception,
              first_call>>
apiVars == <<request, response>>
reviewVars == <<port_reviews, next_review_id, utcnow, handler, requests_started>>
vars == <<pc, decodeVars, distVars, etaVars, congVars, weightVars, fitVars, gaVars,
          callVars, apiVars, reviewVars>>

\* The values of the variables a specification does not use.
DecodeIdle == solution = <<>> /\ route_indices = <<>>

DistIdle ==
    /\ port_coords = <<>>
    /\ dist = <<>>
    /\ pair = <<0, 0>>
    /\ sr_last = [kind |-> "no_query"]
    /\ optimized_indices = <<>>
    /\ route_geometry = <<>>

EtaIdle ==
    /\ average_speed_kmh = 0
    /\ start_datetime = 0
    /\ port_stay_hours = 0
    /\ eta_i = 0
    /\ current_time = 0
    /\ eta_details = <<>>

CongIdle == ports_data = <<>> /\ total_congestion_hours = 0

\* Python's None, where a dict may stand: a function on no key of a dict.
None == [py_none |-> TRUE]

Unset == [num |-> 0, den |-> 1]

WeightIdle ==
    /\ weights = None
    /\ fuel_weight = Unset
    /\ time_weight = Unset
    /\ congestion_weight = Unset

FitIdle ==
    /\ fuel_curve = <<>>
    /\ co2_factor = 0
    /\ vessel_specs = None
    /\ metrics = None
    /\ fitness = None
    /\ prev_metrics = None
    /\ prev_fitness = None

GAIdle ==
    /\ population = {}
    /\ generations_completed = 0
    /\ best_evaluated = <<>>
    /\ fitness_rank = <<>>
    /\ run = 0
    /\ first_result = <<>>

CallIdle ==
    /\ start_datetime_str = None
    /\ optimized_metrics = None
    /\ standard_metrics = None
    /\ exception = ""
    /\ first_call = None

ApiIdle == request = None /\ response = None

ReviewIdle ==
    /\ port_reviews = {}
    /\ next_review_id = 1
    /\ utcnow = 0
    /\ handler = <<>>
    /\ requests_started = 0

(***************************************************************************)
(* Bounds of the model.                                                     *)
(***************************************************************************)
MaxStops == 4       \* N, the number of stops of a run, ranges over 2..MaxStops
MaxGene == 2        \* gene values are 0..MaxGene (the reals k / MaxGene of [0, 1])
MaxDistStops == 3   \* N of the distance and geometry steps ranges over 2..MaxDistStops
MaxEtaStops == 3    \* N of the ETA scheduler ranges over 2..MaxEtaStops
MaxCongStops == 4   \* N of the congestion total ranges over 2..MaxCongStops
MaxFitStops == 3    \* N of the runs whose candidates are evaluated
MaxGAStops == 3     \* N of the runs of the genetic algorithm

Stops == 2..MaxStops
Genes == 0..MaxGene

(***************************************************************************)
(* Helpers.                                                                 *)
(***************************************************************************)
Range(s) == {s[k] : k \in DOMAIN s}

\* All orderings of the set S, as sequences.
Perms(S) == {p \in [1..Cardinality(S) -> S] : Range(p) = S}

(***************************************************************************)
(* Random-key decode.                                                       *)
(***************************************************************************)
\* customer_ids = np.arange(1, len(port_coords)): the non-origin stop indices
\* 1..N-1, as a sequence; n is the number of genes (N - 1).
customer_ids(n) == [k \in 1..n |-> k]

\* np.argsort(solution): the index orders that sort the genes ascending.  The
\* default sort kind is not stable, so equal genes may come out in either
\* order: every sorting order is a possible result.
argsort(sol) ==
    {p \in Perms(DOMAIN sol) :
        \A a, b \in DOMAIN sol : a < b => sol[p[a]] <= sol[p[b]]}

\* A decode that places each stop at the rank of its gene (the count of
\* smaller genes): equal genes collide on one position.
DecodeByRank(sol) ==
    LET n == Len(sol)
        rank(k) == 1 + Cardinality({j \in 1..n : sol[j] < sol[k]})
    IN  {[k \in 1..n |-> customer_ids(n)[rank(k)]]}

\* customer_ids[np.argsort(solution)].tolist(): the possible decoded orders.
Decode(sol) ==
    {[k \in 1..Len(sol) |-> customer_ids(Len(sol))[p[k]]] : p \in argsort(sol)}

(***************************************************************************)
(* Distance engine.                                                         *)
(***************************************************************************)
\* Stop coordinates: whole degrees of a small grid, <<lat, lon>>.
Lats == {0, 1}
Lons == {0, 1}
Points == Lats \X Lons

Abs(x) == IF x < 0 THEN -x ELSE x

\* haversine_distance: the great-circle distance in km (R = 6371), to the
\* nearest km.  On whole degrees within 2 degrees of the equator the formula's
\* value depends on |dlat| and |dlon| alone at this precision (111.19 km per
\* degree along a meridian or the equator, 157.25 km across a one-degree cell).
haversine_distance(lat1, lon1, lat2, lon2) ==
    LET dlat == Abs(lat2 - lat1)
        dlon == Abs(lon2 - lon1)
    IN  CASE dlat = 0 /\ dlon = 0 -> 0
          [] dlat + dlon = 1 -> 111
          [] dlat = 1 /\ dlon = 1 -> 157
          [] dlat * dlon = 0 -> 222
          [] dlat + dlon = 3 -> 249
          [] OTHER -> 314

\* What sr.searoute(...) can do for a distance query: raise, return nothing,
\* return an object without properties, properties without 'length', or a
\* route with its length in km (a route around land, longer than any
\* great-circle distance of the grid).
RoutedLengths == {260}
SearouteKinds == {"raise", "none", "no_properties", "no_length", "ok"}
SearouteResults ==
    {[kind |-> k, length |-> 0] : k \in SearouteKinds \ {"ok"}}
        \cup {[kind |-> "ok", length |-> l] : l \in RoutedLengths}

\* calculate_searoute_distance without its except clause: the exception of
\* the routing query leaves the function.
DistanceUncaught(origin, destination, route) ==
    IF route.kind = "raise"
    THEN [exc |-> TRUE, val |-> 0]
    ELSE IF route.kind = "ok"
         THEN [exc |-> FALSE, val |-> route.length]
         ELSE [exc |-> FALSE,
               val |-> haversine_distance(origin[1], origin[2], destination[1], destination[2])]

\* A distance that leaves the routing result aside for a pair closer than
\* 250 km.
DistanceShortRangeSkipped(origin, destination, route) ==
    LET straight == haversine_distance(origin[1], origin[2], destination[1], destination[2])
    IN  IF straight < 250 \/ route.kind # "ok"
        THEN [exc |-> FALSE, val |-> straight]
        ELSE [exc |-> FALSE, val |-> route.length]

\* calculate_searoute_distance(origin, destination), route being what
\* sr.searoute did: exc tells whether an exception leaves the function, val
\* is the value returned.
calculate_searoute_distance(origin, destination, route) ==
    IF route.kind = "raise"
    THEN \* except Exception: fall back to haversine
         [exc |-> FALSE,
          val |-> haversine_distance(origin[1], origin[2], destination[1], destination[2])]
    ELSE IF route.kind = "ok"
         THEN \* route and hasattr(route, 'properties') and 'length' in route.properties
              [exc |-> FALSE, val |-> route.length]
         ELSE \* unexpected format: fall back to haversine
              [exc |-> FALSE,
               val |-> haversine_distance(origin[1], origin[2], destination[1], destination[2])]

\* What sr.searoute(..., append_orig_dest=True) can do for a geometry query;
\* a route's coordinates are [lon, lat] pairs from origin to destination,
\* possibly through a waypoint.
Waypoint == <<3, 2>>    \* [lon, lat]
GeometryKinds == {"raise", "none", "no_geometry", "no_coordinates", "ok"}
GeometryResults(origin_lonlat, dest_lonlat) ==
    {[kind |-> k, coordinates |-> <<>>] : k \in GeometryKinds \ {"ok"}}
        \cup {[kind |-> "ok", coordinates |-> c] :
                 c \in {<<origin_lonlat, dest_lonlat>>,
                        <<origin_lonlat, Waypoint, dest_lonlat>>}}

\* get_searoute_geometry(origin, destination): the list of [lat, lon] points.
get_searoute_geometry(origin, destination, route) ==
    IF route.kind = "raise"
    THEN \* except Exception: straight line
         [exc |-> FALSE, val |-> <<origin, destination>>]
    ELSE IF route.kind = "ok"
         THEN \* [lon, lat] to [lat, lon]
              [exc |-> FALSE,
               val |-> [k \in DOMAIN route.coordinates |->
                          <<route.coordinates[k][2], route.coordinates[k][1]>>]]
         ELSE [exc |-> FALSE, val |-> <<origin, destination>>]

\* Writing only the upper-triangle entry.
StoreUpperOnly(d, i, j, v) == [d EXCEPT ![i][j] = v]

\* dist[i, j] = dist[j, i] = maritime_dist
StoreDistance(d, i, j, v) == [d EXCEPT ![i][j] = v, ![j][i] = v]

\* np.zeros((N, N))
ZeroMatrix(N) == [i \in 0..(N - 1) |-> [j \in 0..(N - 1) |-> 0]]

NumPorts == Len(port_coords)
\* port_coords[i] with the code's indices from 0.
Coord(i) == port_coords[i + 1]

\* The pair after <<i, j>> in "for i in range(N): for j in range(i + 1, N)",
\* <<N, N>> when the loops are over.
NextPair(i, j, N) ==
    IF j + 1 < N THEN <<i, j + 1>>
    ELSE IF i + 2 < N THEN <<i + 1, i + 2>>
    ELSE <<N, N>>

(***************************************************************************)
(* SpecDist: the distance matrix is built pair by pair, then the geometry   *)
(* of an order is fetched leg by leg; each routing query may fail in every  *)
(* way.                                                                     *)
(***************************************************************************)
InitDist ==
    /\ pc = "dist"
    /\ CallIdle /\ ApiIdle /\ ReviewIdle
    /\ DecodeIdle /\ EtaIdle /\ CongIdle /\ WeightIdle /\ FitIdle /\ GAIdle
    /\ \E N \in 2..MaxDistStops :
          port_coords \in {c \in [1..N -> Points] : c[1] = <<0, 0>>}
    /\ dist = ZeroMatrix(NumPorts)
    /\ pair = <<0, 1>>
    /\ sr_last = [kind |-> "no_query"]
    /\ optimized_indices = <<>>
    /\ route_geometry = <<>>

\* Lines 329-339: one pass of the inner loop body.
BuildDistance ==
    /\ pc = "dist"
    /\ pair[1] < NumPorts
    /\ \E route \in SearouteResults :
          LET i == pair[1]
              j == pair[2]
              maritime_dist == calculate_searoute_distance(Coord(i), Coord(j), route)
          IN  /\ sr_last' = [kind |-> route.kind, i |-> i, j |-> j, length |-> route.length]
              /\ IF maritime_dist.exc
                 THEN pc' = "raised" /\ UNCHANGED <<callVars, apiVars, reviewVars, dist, pair>>
                 ELSE /\ dist' = StoreDistance(dist, i, j, maritime_dist.val)
                      /\ pair' = NextPair(i, j, NumPorts)
                      /\ pc' = "dist"
    /\ UNCHANGED <<callVars, apiVars, reviewVars, port_coords, optimized_indices, route_geometry, decodeVars, etaVars, congVars, weightVars, fitVars, gaVars>>

\* The matrix is complete; the search (not part of this specification)
\* yields some order of the non-origin stops.
FinishMatrix ==
    /\ pc = "dist"
    /\ pair[1] >= NumPorts
    /\ optimized_indices' \in Perms(1..(NumPorts - 1))
    /\ pair' = <<0, 0>>
    /\ sr_last' = [kind |-> "no_query"]
    /\ pc' = "geometry"
    /\ UNCHANGED <<callVars, apiVars, reviewVars, port_coords, dist, route_geometry, decodeVars, etaVars, congVars, weightVars, fitVars, gaVars>>

\* Lines 463-476: one pass of the geometry loop; pair[1] is the loop index.
FetchSegment ==
    /\ pc = "geometry"
    /\ pair[1] < Len(optimized_indices)
    /\ LET full_optimized_path_indices == <<0>> \o optimized_indices
           origin == Coord(full_optimized_path_indices[pair[1] + 1])
           destination == Coord(full_optimized_path_indices[pair[1] + 2])
       IN  \E route \in GeometryResults(<<origin[2], origin[1]>>,
                                        <<destination[2], destination[1]>>) :
              LET segment_geometry == get_searoute_geometry(origin, destination, route)
              IN  /\ sr_last' = [kind |-> route.kind, origin |-> origin,
                                 destination |-> destination,
                                 segment |-> segment_geometry.val]
                  /\ IF segment_geometry.exc
                     THEN pc' = "raised" /\ UNCHANGED <<callVars, apiVars, reviewVars, route_geometry, pair>>
                     ELSE /\ route_geometry' =
                                IF route_geometry = <<>>
                                THEN segment_geometry.val
                                ELSE route_geometry \o Tail(segment_geometry.val)
                          /\ pair' = <<pair[1] + 1, 0>>
                          /\ pc' = "geometry"
    /\ UNCHANGED <<callVars, apiVars, reviewVars, port_coords, dist, optimized_indices, decodeVars, etaVars, congVars, weightVars, fitVars, gaVars>>

\* The geometry loop is over: the run returns.
FinishGeometry ==
    /\ pc = "geometry"
    /\ pair[1] >= Len(optimized_indices)
    /\ pc' = "done"
    /\ UNCHANGED <<callVars, apiVars, reviewVars, decodeVars, distVars, etaVars, congVars, weightVars, fitVars, gaVars>>

NextDist == BuildDistance \/ FinishMatrix \/ FetchSegment \/ FinishGeometry

SpecDist == InitDist /\ [][NextDist]_vars

\* C2: once the matrix is built, dist[i][j] = dist[j][i] and dist[i][i] = 0
\* for all stops i, j, whatever each pairwise query returned.
C2_MatrixSymmetricZeroDiagonal ==
    pc \in {"geometry", "done"} =>
        \A i, j \in 0..(NumPorts - 1) :
            dist[i][j] = dist[j][i] /\ dist[i][i] = 0

\* A built matrix of three stops with a routed length and a fallback in it.
C2_Witness ==
    /\ pc = "geometry"
    /\ NumPorts = 3
    /\ dist[0][1] \in RoutedLengths
    /\ dist[1][2] = haversine_distance(Coord(1)[1], Coord(1)[2], Coord(2)[1], Coord(2)[2])
    /\ dist[1][2] > 0

\* C5: no routing query makes the run raise; a distance query that raised
\* or came back without a usable length stored the haversine distance of
\* the pair, and a geometry query that raised or came back without
\* coordinates gave the straight line [origin, destination].
C5_RoutingFailureFallsBack ==
    /\ pc # "raised"
    /\ (pc = "dist" /\ sr_last.kind \in SearouteKinds \ {"ok"}) =>
            dist[sr_last.i][sr_last.j] =
                haversine_distance(Coord(sr_last.i)[1], Coord(sr_last.i)[2],
                                   Coord(sr_last.j)[1], Coord(sr_last.j)[2])
    /\ (pc \in {"geometry", "done"} /\ sr_last.kind \in GeometryKinds \ {"ok"}) =>
            sr_last.segment = <<sr_last.origin, sr_last.destination>>

\* A run has ended although its last geometry query raised and a distance
\* query had failed.
C5_Witness ==
    /\ pc = "done"
    /\ sr_last.kind = "raise"
    /\ \E i, j \in 0..(NumPorts - 1) :
          i # j /\ dist[i][j] \notin RoutedLengths

\* The great-circle distance of the stops i and j.
StraightLine(i, j) ==
    haversine_distance(Coord(i)[1], Coord(i)[2], Coord(j)[1], Coord(j)[2])

\* C17 as claimed: for a pair of stops closer than 250 km no routing query
\* is issued, the distance used is the great-circle distance, and the
\* geometry of such a leg is the two-point straight line.
C17_Original ==
    /\ (pc = "dist" /\ sr_last.kind \in SearouteKinds) =>
            StraightLine(sr_last.i, sr_last.j) >= 250
    /\ pc \in {"geometry", "done"} =>
            \A i, j \in 0..(NumPorts - 1) :
                StraightLine(i, j) < 250 => dist[i][j] = StraightLine(i, j)
    /\ (pc \in {"geometry", "done"} /\ sr_last.kind \in GeometryKinds) =>
            \/ haversine_distance(sr_last.origin[1], sr_last.origin[2],
                                  sr_last.destination[1], sr_last.destination[2]) >= 250
            \/ sr_last.segment = <<sr_last.origin, sr_last.destination>>

\* C17 amended: every pass of the matrix loop and of the geometry loop issues
\* the routing query for its pair, also when the two stops are closer than
\* 250 km, and a length the query yields is the distance used; the
\* great-circle distance is used only when the query yields none.
C17_EveryPairQueried ==
    /\ []((pc = "dist" /\ sr_last.kind \in SearouteKinds) =>
            dist[sr_last.i][sr_last.j] =
                IF sr_last.kind = "ok" THEN sr_last.length
                ELSE StraightLine(sr_last.i, sr_last.j))
    /\ [][/\ (pc = "dist" /\ pair[1] < NumPorts) =>
                (sr_last'.kind \in SearouteKinds /\ <<sr_last'.i, sr_last'.j>> = pair)
          /\ (pc = "geometry" /\ pc' = "geometry") =>
                sr_last'.kind \in GeometryKinds]_vars

\* A pair closer than 250 km has been routed, and the routed length stored.
C17_Witness ==
    /\ pc = "dist"
    /\ sr_last.kind = "ok"
    /\ StraightLine(sr_last.i, sr_last.j) < 250
    /\ StraightLine(sr_last.i, sr_last.j) > 0
    /\ dist[sr_last.i][sr_last.j] \in RoutedLengths

(***************************************************************************)
(* ETA scheduler.                                                           *)
(*                                                                          *)
(* Time is counted in ticks of a millisecond (datetime and timedelta count  *)
(* microseconds).  A datetime is its number of ticks since a reference      *)
(* instant; the formatted 'eta' string, which has no fraction of a second,  *)
(* is the number of whole seconds.                                          *)
(***************************************************************************)
TicksPerSecond == 1000
TicksPerHour == 3600 * TicksPerSecond

\* n / d to the nearest integer, halves to the even neighbour (round(), and
\* timedelta's rounding to its resolution), for n >= 0 and d > 0.
RoundDiv(n, d) ==
    LET q == n \div d
        r == n % d
    IN  IF 2 * r < d THEN q
        ELSE IF 2 * r > d THEN q + 1
        ELSE IF q % 2 = 0 THEN q ELSE q + 1

\* Line 127: leg_distance / average_speed_kmh if average_speed_kmh > 0 else 0,
\* as the timedelta(hours=...) of line 130 holds it.
LegTravelTime(leg_distance, speed) ==
    IF speed > 0 THEN RoundDiv(leg_distance * TicksPerHour, speed) ELSE 0

\* round(leg_travel_time_hours, 2), in hundredths of an hour.
LegTravelHours(leg_distance, speed) ==
    IF speed > 0 THEN RoundDiv(leg_distance * 100, speed) ELSE 0

\* current_time.strftime('%Y-%m-%d %H:%M:%S'): the whole seconds.
strftime(t) == t \div TicksPerSecond

\* A scheduler that adds the port stay before it records the arrival.
EtaStepStayFirst(clock, leg_distance, speed, stay) ==
    LET arrival == clock + LegTravelTime(leg_distance, speed) + stay
    IN  [eta |-> strftime(arrival), clock |-> arrival]

\* A scheduler that leaves at once (no port stay).
EtaStepNoStay(clock, leg_distance, speed, stay) ==
    LET arrival == clock + LegTravelTime(leg_distance, speed)
    IN  [eta |-> strftime(arrival), clock |-> arrival]

\* A scheduler that waits at each port for the delay of the first congestion
\* record, hundredths of an hour, before it records the arrival.
EtaStepCongested(clock, leg_distance, speed, stay) ==
    LET delay == IF ports_data = <<>> THEN 0
                 ELSE (ports_data[1].congestion_hours * TicksPerHour) \div 100
        arrival == clock + LegTravelTime(leg_distance, speed) + delay
    IN  [eta |-> strftime(arrival), clock |-> arrival + stay]

\* Lines 130-142 for one leg: the arrival recorded and the clock after the
\* port stay.
EtaStep(clock, leg_distance, speed, stay) ==
    LET arrival == clock + LegTravelTime(leg_distance, speed)
    IN  [eta |-> strftime(arrival), clock |-> arrival + stay]

\* The inputs the scheduler is run on.
Speeds == {0, 20, 37}               \* km/h
StartTimes == {0, 500}              \* a parsed time (whole seconds), now()
PortStays == {-TicksPerHour, 0, 500, TicksPerSecond, 24 * TicksPerHour}

\* Stop layouts: stop s (from 0) at a place of its own, or every second stop
\* at the place of the stop before it (a port entered twice).
LayoutPoint(k) == <<(k \div 2) % 2, k % 2>>
Layouts(N) ==
    {[k \in 1..N |-> LayoutPoint(k - 1)], [k \in 1..N |-> LayoutPoint(k \div 2)]}

\* The matrices the matrix loop can build for the stops c: symmetric, zero on
\* the diagonal, each pair at its haversine distance or at a routed length.
DistMatrices(c) ==
    LET N == Len(c)
        Pairs == {q \in (0..(N - 1)) \X (0..(N - 1)) : q[1] < q[2]}
        Haversine(i, j) ==
            haversine_distance(c[i + 1][1], c[i + 1][2], c[j + 1][1], c[j + 1][2])
    IN  {[i \in 0..(N - 1) |-> [j \in 0..(N - 1) |->
            IF i = j THEN 0
            ELSE LET q == IF i < j THEN <<i, j>> ELSE <<j, i>>
                 IN  IF routed[q] = 0 THEN Haversine(q[1], q[2]) ELSE routed[q]]] :
         routed \in [Pairs -> {0} \cup RoutedLengths]}

(***************************************************************************)
(* SpecEta: calculate_detailed_eta on every order, matrix, speed, start and *)
(* stay of the bounds.                                                      *)
(***************************************************************************)
InitEta ==
    /\ pc = "eta"
    /\ CallIdle /\ ApiIdle /\ ReviewIdle
    /\ DecodeIdle /\ CongIdle /\ WeightIdle /\ FitIdle /\ GAIdle
    /\ \E N \in 2..MaxEtaStops :
          /\ port_coords \in Layouts(N)
          /\ dist \in DistMatrices(port_coords)
          /\ optimized_indices \in Perms(1..(N - 1))
    /\ pair = <<0, 0>>
    /\ sr_last = [kind |-> "no_query"]
    /\ route_geometry = <<>>
    /\ average_speed_kmh \in Speeds
    /\ start_datetime \in StartTimes
    /\ port_stay_hours \in PortStays
    /\ eta_i = 0
    /\ current_time = start_datetime      \* line 118
    /\ eta_details = <<>>                 \* line 117

\* Lines 121-142: one pass of the loop.
EtaLeg ==
    /\ pc = "eta"
    /\ LET full_route == <<0>> \o optimized_indices
       IN  /\ eta_i < Len(full_route) - 1
           /\ LET start_idx == full_route[eta_i + 1]
                  end_idx == full_route[eta_i + 2]
                  leg_distance == dist[start_idx][end_idx]
                  step == EtaStep(current_time, leg_distance, average_speed_kmh,
                                  port_stay_hours)
              IN  /\ eta_details' = Append(eta_details,
                        [port_index |-> end_idx,
                         port_coords |-> Coord(end_idx),
                         leg_distance_km |-> leg_distance,
                         leg_travel_hours |-> LegTravelHours(leg_distance, average_speed_kmh),
                         eta |-> step.eta])
                  /\ current_time' = step.clock
    /\ eta_i' = eta_i + 1
    /\ UNCHANGED <<callVars, apiVars, reviewVars, pc, decodeVars, distVars, congVars, weightVars, fitVars, gaVars,
                   average_speed_kmh, start_datetime, port_stay_hours>>

\* Line 144: the loop is over, eta_details is returned.
EtaReturn ==
    /\ pc = "eta"
    /\ eta_i >= Len(optimized_indices)
    /\ pc' = "eta_done"
    /\ UNCHANGED <<callVars, apiVars, reviewVars, decodeVars, distVars, etaVars, congVars, weightVars, fitVars, gaVars>>

NextEta == EtaLeg \/ EtaReturn

SpecEta == InitEta /\ [][NextEta]_vars

\* The arrival timestamps of consecutive entries increase strictly.
EtaStrictlyIncreasing ==
    \A k \in 1..(Len(eta_details) - 1) : eta_details[k].eta < eta_details[k + 1].eta

\* C3 as claimed: N-1 entries, one per non-origin stop in visiting order,
\* with strictly increasing arrival timestamps, for every order, matrix,
\* speed and port stay.
C3_Original ==
    pc = "eta_done" =>
        /\ Len(eta_details) = NumPorts - 1
        /\ \A k \in 1..Len(eta_details) : eta_details[k].port_index = optimized_indices[k]
        /\ EtaStrictlyIncreasing

\* C3 amended: N-1 entries, one per non-origin stop in visiting order; with
\* a port stay that is not negative the arrival timestamps never decrease,
\* and with a port stay of at least one second they increase strictly.
C3_EtaCountAndOrder ==
    pc = "eta_done" =>
        /\ Len(eta_details) = NumPorts - 1
        /\ \A k \in 1..Len(eta_details) : eta_details[k].port_index = optimized_indices[k]
        /\ port_stay_hours >= 0 =>
              \A k \in 1..(Len(eta_details) - 1) :
                  eta_details[k].eta <= eta_details[k + 1].eta
        /\ port_stay_hours >= TicksPerSecond => EtaStrictlyIncreasing

\* A schedule of three stops with a stay of one second and a leg of no
\* distance has been produced.
C3_Witness ==
    /\ pc = "eta_done"
    /\ NumPorts = 3
    /\ port_stay_hours = TicksPerSecond
    /\ eta_details[2].leg_distance_km = 0
    /\ eta_details[1].eta < eta_details[2].eta

\* The time of the legs 1..k of the route, summed.
RECURSIVE SumLegTimes(_)
SumLegTimes(k) ==
    IF k = 0 THEN 0
    ELSE LET full_route == <<0>> \o optimized_indices
         IN  SumLegTimes(k - 1)
                + RoundDiv(dist[full_route[k]][full_route[k + 1]] * TicksPerHour,
                           average_speed_kmh)

\* C4: the arrival recorded for the k-th visited stop is the start time
\* plus the travel times (distance / speed) of the legs 1..k plus k-1 port
\* stays (for a positive speed; the timestamp holds the whole seconds).
C4_ClockAdvancesLegByLeg ==
    average_speed_kmh > 0 =>
        \A k \in 1..Len(eta_details) :
            eta_details[k].eta =
                (start_datetime + SumLegTimes(k) + (k - 1) * port_stay_hours)
                    \div TicksPerSecond

\* A second arrival after a positive stay and two legs of positive length.
C4_Witness ==
    /\ Len(eta_details) = 2
    /\ average_speed_kmh > 0
    /\ port_stay_hours > 0
    /\ eta_details[1].leg_distance_km > 0
    /\ eta_details[2].leg_distance_km > 0

(***************************************************************************)
(* Congestion total.                                                        *)
(*                                                                          *)
(* Hours are counted in hundredths.  A dict is a function on its keys.      *)
(***************************************************************************)
\* dict.get(key, default)
Get(d, key, default) == IF key \in DOMAIN d THEN d[key] ELSE default

\* The delay of the stop at position k of full_route (lines 259-261).
PortDelay(full_route, data, k) ==
    IF full_route[k] < Len(data)
    THEN Get(data[full_route[k] + 1], "congestion_hours", 0)
    ELSE 0

\* A total in which a stop also suffers 35% of the delay of the stop before
\* it (to the nearest hundredth).
RECURSIVE CongestionCompounded(_, _, _)
CongestionCompounded(full_route, data, k) ==
    IF k > Len(full_route) THEN 0
    ELSE PortDelay(full_route, data, k)
            + (IF k > 1 THEN RoundDiv(35 * PortDelay(full_route, data, k - 1), 100) ELSE 0)
            + CongestionCompounded(full_route, data, k + 1)

\* Lines 258-262: the loop from position k of full_route on.
RECURSIVE CongestionLoop(_, _, _)
CongestionLoop(full_route, data, k) ==
    IF k > Len(full_route) THEN 0
    ELSE PortDelay(full_route, data, k) + CongestionLoop(full_route, data, k + 1)

\* A total over the visited stops alone, the origin left out.
CongestionWithoutOrigin(route, data) ==
    IF data = <<>> THEN 0 ELSE CongestionLoop(route, data, 1)

\* calculate_route_congestion(route_indices, ports_data)
calculate_route_congestion(route, data) ==
    IF data = <<>>
    THEN 0                                      \* if not ports_data: return 0
    ELSE CongestionLoop(<<0>> \o route, data, 1)

\* The congestion records the endpoint builds (app.py lines 686-701): the
\* delay of a congestion index of 0, 25 or 50 percent; a record of another
\* caller may lack the key.
PortRecords ==
    {[congestion_hours |-> h] : h \in {0, 100, 300}} \cup {[name |-> "port"]}

\* ports_data of a run of N stops: a list of at most N records (the endpoint
\* drops the ids it does not find).  None and the empty list are both falsy
\* and take the same branches everywhere: <<>> stands for both.
PortsData(N) == UNION {[1..n -> PortRecords] : n \in 0..N}

(***************************************************************************)
(* SpecCong: calculate_route_congestion on every order and port data of the *)
(* bounds.                                                                  *)
(***************************************************************************)
InitCong ==
    /\ pc = "congestion"
    /\ CallIdle /\ ApiIdle /\ ReviewIdle
    /\ DistIdle /\ EtaIdle /\ WeightIdle /\ FitIdle /\ GAIdle
    /\ solution = <<>>
    /\ \E N \in 2..MaxCongStops :
          /\ route_indices \in Perms(1..(N - 1))
          /\ ports_data \in PortsData(N)
    /\ total_congestion_hours = 0

\* Line 196 of get_route_metrics: the call.
CalculateCongestion ==
    /\ pc = "congestion"
    /\ total_congestion_hours' =
          IF ports_data # <<>>                          \* ... if ports_data else 0
          THEN calculate_route_congestion(route_indices, ports_data)
          ELSE 0
    /\ pc' = "congestion_done"
    /\ UNCHANGED <<callVars, apiVars, reviewVars, decodeVars, distVars, etaVars, weightVars, fitVars, gaVars, ports_data>>

\* The same port data is scored for another candidate order.
NextCandidate ==
    /\ pc = "congestion_done"
    /\ route_indices' \in Perms(1..Len(route_indices))
    /\ pc' = "congestion"
    /\ UNCHANGED <<callVars, apiVars, reviewVars, solution, distVars, etaVars, congVars, weightVars, fitVars, gaVars>>

NextCong == CalculateCongestion \/ NextCandidate

SpecCong == InitCong /\ [][NextCong]_vars

\* The base delay of stop idx (0 without a record or without the key).
BaseDelay(idx) ==
    IF idx < Len(ports_data)
    THEN Get(ports_data[idx + 1], "congestion_hours", 0)
    ELSE 0

\* The total of the claim, times 20^n for a route of n stops after the
\* origin: adjusted(i) = base(i) + 35% of base(i-1) + 5% of the adjusted
\* delays before i.  Pow20(n - i) divides the scaled adjusted(i), so the
\* divisions by 20 are exact.
RECURSIVE Pow20(_)
Pow20(n) == IF n = 0 THEN 1 ELSE 20 * Pow20(n - 1)

RECURSIVE AdjustedSum(_)
AdjustedSum(i) ==
    \* the scaled sum of adjusted(0..i)
    LET full_route == <<0>> \o route_indices
        scale == Pow20(Len(route_indices))
    IN  IF i = 0 THEN BaseDelay(0) * scale
        ELSE LET before == AdjustedSum(i - 1)
             IN  before + BaseDelay(full_route[i + 1]) * scale
                    + (7 * BaseDelay(full_route[i]) * scale) \div 20
                    + before \div 20

RECURSIVE SumBaseDelays(_)
SumBaseDelays(n) == IF n < 0 THEN 0 ELSE BaseDelay(n) + SumBaseDelays(n - 1)

RECURSIVE VisitedDelays(_)
VisitedDelays(k) ==
    IF k > Len(route_indices) THEN 0
    ELSE BaseDelay(route_indices[k]) + VisitedDelays(k + 1)

\* C13: the congestion total of a candidate order is the delay of the origin
\* (port index 0) added to the delays of the stops the order visits.
C13_OriginDelayIncluded ==
    pc = "congestion_done" =>
        total_congestion_hours = BaseDelay(0) + VisitedDelays(1)

\* A total in which the origin has a delay and so has a visited stop.
C13_Witness ==
    /\ pc = "congestion_done"
    /\ BaseDelay(0) > 0
    /\ VisitedDelays(1) > 0
    /\ total_congestion_hours > VisitedDelays(1)

(***************************************************************************)
(* Objective weights.                                                       *)
(*                                                                          *)
(* A weight is the exact fraction [num, den] of the float the code holds.   *)
(***************************************************************************)
WeightKeys == {"fuel", "time", "congestion"}
WeightValues == {0, 30, 50, 100}

\* The weights a caller passes: None, a dict of the three priorities (0-100
\* each), or a dict without 'congestion'.
WeightInputs ==
    {None} \cup [WeightKeys -> WeightValues] \cup [{"fuel", "time"} -> WeightValues]

\* Lines 293-309: the default for None, then the normalization; exc tells
\* that a key is missing (KeyError).
NormalizeWeights(w) ==
    LET given == IF w = None
                 THEN [fuel |-> 50, time |-> 50, congestion |-> 50]
                 ELSE w
    IN  IF ~(WeightKeys \subseteq DOMAIN given)
        THEN [exc |-> TRUE, fuel_weight |-> Unset, time_weight |-> Unset,
              congestion_weight |-> Unset]
        ELSE LET weight_sum == given["fuel"] + given["time"] + given["congestion"]
             IN  IF weight_sum = 0
                 THEN \* 0.33 each
                      [exc |-> FALSE,
                       fuel_weight |-> [num |-> 33, den |-> 100],
                       time_weight |-> [num |-> 33, den |-> 100],
                       congestion_weight |-> [num |-> 33, den |-> 100]]
                 ELSE [exc |-> FALSE,
                       fuel_weight |-> [num |-> given["fuel"], den |-> weight_sum],
                       time_weight |-> [num |-> given["time"], den |-> weight_sum],
                       congestion_weight |-> [num |-> given["congestion"], den |-> weight_sum]]

(***************************************************************************)
(* SpecWeights: the weights of a run are normalized; the caller then starts *)
(* a run with other weights.                                                *)
(***************************************************************************)
InitWeights ==
    /\ pc = "weights"
    /\ CallIdle /\ ApiIdle /\ ReviewIdle
    /\ DecodeIdle /\ DistIdle /\ EtaIdle /\ CongIdle /\ FitIdle /\ GAIdle
    /\ weights \in WeightInputs
    /\ fuel_weight = Unset
    /\ time_weight = Unset
    /\ congestion_weight = Unset

\* Lines 293-309.
Normalize ==
    /\ pc = "weights"
    /\ LET r == NormalizeWeights(weights)
       IN  /\ fuel_weight' = r.fuel_weight
           /\ time_weight' = r.time_weight
           /\ congestion_weight' = r.congestion_weight
           /\ pc' = IF r.exc THEN "raised" ELSE "normalized"
    /\ UNCHANGED <<callVars, apiVars, reviewVars, weights, decodeVars, distVars, etaVars, congVars, fitVars, gaVars>>

\* Another call, with other weights.
NextRun ==
    /\ pc \in {"normalized", "raised"}
    /\ weights' \in WeightInputs
    /\ fuel_weight' = Unset
    /\ time_weight' = Unset
    /\ congestion_weight' = Unset
    /\ pc' = "weights"
    /\ UNCHANGED <<callVars, apiVars, reviewVars, decodeVars, distVars, etaVars, congVars, fitVars, gaVars>>

NextWeights == Normalize \/ NextRun

SpecWeights == InitWeights /\ [][NextWeights]_vars

\* a + b + c = 1 for the fractions a, b, c.
SumsToOne(a, b, c) ==
    a.num * b.den * c.den + b.num * a.den * c.den + c.num * a.den * b.den
        = a.den * b.den * c.den

\* C7: the weights used in the fitness function sum to 1, and the all-zero
\* input gives one third each.
C7_WeightsSumToOne ==
    pc = "normalized" =>
        /\ SumsToOne(fuel_weight, time_weight, congestion_weight)
        /\ (weights # None /\ \A k \in WeightKeys : weights[k] = 0) =>
              \A w \in {fuel_weight, time_weight, congestion_weight} : 3 * w.num = w.den

(***************************************************************************)
(* Exact arithmetic.                                                        *)
(*                                                                          *)
(* The metrics and the fitness of a route are fractions whose numerators    *)
(* pass the range of 32-bit integers.  A natural number is held as its      *)
(* digits to the base BNBase, lowest first, without leading zeros; the      *)
(* model computes the exact values of the code's float expressions.         *)
(***************************************************************************)
\* The number of epsilons (1e-6, lines 364-366) in a hundredth, the unit of
\* a rounded metric.
EpsPerCenti == 10000
BNBase == EpsPerCenti

RECURSIVE BNFromNat(_)
BNFromNat(n) ==
    IF n = 0 THEN <<>> ELSE <<n % BNBase>> \o BNFromNat(n \div BNBase)

RECURSIVE BNToNat(_)
BNToNat(a) ==
    IF a = <<>> THEN 0 ELSE Head(a) + BNBase * BNToNat(Tail(a))

RECURSIVE BNNorm(_)
BNNorm(a) ==
    IF a = <<>> THEN <<>>
    ELSE IF a[Len(a)] = 0 THEN BNNorm(SubSeq(a, 1, Len(a) - 1))
    ELSE a

RECURSIVE BNAddC(_, _, _)
BNAddC(a, b, carry) ==
    IF a = <<>> /\ b = <<>>
    THEN IF carry = 0 THEN <<>> ELSE <<carry>>
    ELSE LET x == IF a = <<>> THEN 0 ELSE Head(a)
             y == IF b = <<>> THEN 0 ELSE Head(b)
             t == x + y + carry
         IN  <<t % BNBase>> \o BNAddC(IF a = <<>> THEN <<>> ELSE Tail(a),
                                      IF b = <<>> THEN <<>> ELSE Tail(b),
                                      t \div BNBase)

BNAdd(a, b) == BNAddC(a, b, 0)

RECURSIVE BNMulSmallC(_, _, _)
BNMulSmallC(a, k, carry) ==
    IF a = <<>> THEN BNFromNat(carry)
    ELSE LET t == Head(a) * k + carry
         IN  <<t % BNBase>> \o BNMulSmallC(Tail(a), k, t \div BNBase)

\* a * k for 0 <= k <= 200000.
BNMulSmall(a, k) == IF k = 0 THEN <<>> ELSE BNMulSmallC(a, k, 0)

RECURSIVE BNMul(_, _)
BNMul(a, b) ==
    IF a = <<>> \/ b = <<>> THEN <<>>
    ELSE LET rest == BNMul(Tail(a), b)
         IN  BNAdd(BNMulSmall(b, Head(a)),
                   IF rest = <<>> THEN <<>> ELSE <<0>> \o rest)

RECURSIVE BNCmpAt(_, _, _)
BNCmpAt(a, b, i) ==
    IF i = 0 THEN 0
    ELSE IF a[i] < b[i] THEN -1
    ELSE IF a[i] > b[i] THEN 1
    ELSE BNCmpAt(a, b, i - 1)

\* -1, 0 or 1 as a < b, a = b or a > b.
BNCmp(a, b) ==
    IF Len(a) < Len(b) THEN -1
    ELSE IF Len(a) > Len(b) THEN 1
    ELSE BNCmpAt(a, b, Len(a))

RECURSIVE BNDivAt(_, _, _, _)
BNDivAt(a, d, i, rem) ==
    IF i = 0 THEN [q |-> <<>>, r |-> rem]
    ELSE LET cur == rem * BNBase + a[i]
             lower == BNDivAt(a, d, i - 1, cur % d)
         IN  [q |-> Append(lower.q, cur \div d), r |-> lower.r]

\* Quotient q and remainder r of a by d, for 0 < d <= 200000.
BNDivSmall(a, d) ==
    LET res == BNDivAt(a, d, Len(a), 0)
    IN  [q |-> BNNorm(res.q), r |-> res.r]

\* x / (d1 * d2) to the nearest integer, halves to the even neighbour
\* (round()), for 0 < d1, d2 <= 200000.
BNRoundDiv(x, d1, d2) ==
    LET s1 == BNDivSmall(x, d1)
        s2 == BNDivSmall(s1.q, d2)
        rem == BNAdd(BNMul(BNFromNat(s2.r), BNFromNat(d1)), BNFromNat(s1.r))
        den == BNMul(BNFromNat(d1), BNFromNat(d2))
        c == BNCmp(BNMulSmall(rem, 2), den)
        q == BNToNat(s2.q)
    IN  IF c < 0 THEN q
        ELSE IF c > 0 THEN q + 1
        ELSE IF q % 2 = 0 THEN q ELSE q + 1

(***************************************************************************)
(* Route metrics.                                                           *)
(*                                                                          *)
(* Distances are whole kilometres, speeds whole knots, consumptions whole   *)
(* tons per hour, the CO2 factor thousandths; every rounded metric, a delay *)
(* and the idle rate are hundredths of their unit.                          *)
(***************************************************************************)
\* Bands that each scale from 0 (the rate at the lower end of the band left
\* out above the first band).
IdleRateBandsFromZero(gross_tonnage, propulsion_power) ==
    LET p == 240 * propulsion_power
    IN  IF gross_tonnage < 25000
        THEN [num |-> (1600 + p) * 125 + gross_tonnage * 12, den |-> 125]
        ELSE IF gross_tonnage < 100000
        THEN [num |-> p * 25 + (gross_tonnage - 25000) * 4, den |-> 25]
        ELSE IF gross_tonnage < 200000
        THEN [num |-> p * 25 + (gross_tonnage - 100000) * 6, den |-> 25]
        ELSE [num |-> p * 5 + (gross_tonnage - 200000) * 2, den |-> 5]

\* Lines 86-97 and 101-104: 0.8 * base_rate + 0.2 * 12 * propulsion_power, in
\* hundredths of a litre per hour, as a fraction.
IdleRateFraction(gross_tonnage, propulsion_power) ==
    LET p == 240 * propulsion_power
    IN  IF gross_tonnage < 25000
        THEN [num |-> (1600 + p) * 125 + gross_tonnage * 12, den |-> 125]
        ELSE IF gross_tonnage < 100000
        THEN [num |-> (4000 + p) * 25 + (gross_tonnage - 25000) * 4, den |-> 25]
        ELSE IF gross_tonnage < 200000
        THEN [num |-> (16000 + p) * 25 + (gross_tonnage - 100000) * 6, den |-> 25]
        ELSE [num |-> (40000 + p) * 5 + (gross_tonnage - 200000) * 2, den |-> 5]

\* Lines 67-109: the bounds of 20 and 2000 L/h, then round(idle_rate, 2).
calculate_idle_fuel_rate(gross_tonnage, propulsion_power) ==
    LET f == IdleRateFraction(gross_tonnage, propulsion_power)
    IN  IF f.num < 2000 * f.den THEN 2000
        ELSE IF f.num > 200000 * f.den THEN 200000
        ELSE RoundDiv(f.num, f.den)

\* The last of the closest samples.
ClosestPointLast(curve, cruising_speed_knots) ==
    LET key(i) == Abs(curve[i].speed - cruising_speed_knots)
        best == CHOOSE i \in 1..Len(curve) :
                    \A j \in 1..Len(curve) :
                        key(i) < key(j) \/ (key(i) = key(j) /\ i >= j)
    IN  curve[best]

\* min(fuel_curve, key=lambda x: abs(x['speed'] - cruising_speed_knots)): the
\* first of the closest samples.
ClosestPoint(curve, cruising_speed_knots) ==
    LET key(i) == Abs(curve[i].speed - cruising_speed_knots)
        best == CHOOSE i \in 1..Len(curve) :
                    \A j \in 1..Len(curve) :
                        key(i) < key(j) \/ (key(i) = key(j) /\ i <= j)
    IN  curve[best]

\* Lines 165-168: the origin to the first stop, then stop to stop.
RECURSIVE TotalDistance(_, _, _)
TotalDistance(route, d, k) ==
    IF k >= Len(route) THEN 0
    ELSE d[route[k]][route[k + 1]] + TotalDistance(route, d, k + 1)

\* What get_route_metrics gives when it raises.
MetricsRaised ==
    [exc |-> TRUE, distance_km |-> 0, fuel_liters |-> 0, co2_kg |-> 0,
     travel_time_hours |-> 0, congestion_hours |-> 0, idle_fuel_rate |-> 0,
     travel_fuel_liters |-> 0, congestion_fuel_liters |-> 0]

\* Hundredths of a kg of CO2 at 1000 litres to the ton of fuel.
Co2KgPerCubicMetre(total_n, factor, speed_den) ==
    BNRoundDiv(BNMulSmall(total_n, factor), speed_den, 100000)

\* Lines 221-224 and 232: round(total_fuel_liters / 1176.5 * co2_factor * 1000,
\* 2) in hundredths of a kg, for total_fuel_liters = total_n / (100 *
\* speed_den) hundredths of a litre and co2_factor = factor / 1000.
Co2Kg(total_n, factor, speed_den) ==
    BNRoundDiv(BNMulSmall(total_n, factor), speed_den, 117650)

\* Lines 148-237.  The samples have a speed of 0 or more; a speed of 0 is a
\* division by zero at line 184 or 190, before line 193 asks for it.
get_route_metrics(route, d, curve, factor, data, specs) ==
    LET cruising == specs # None /\ "cruising_speed" \in DOMAIN specs
    IN
    IF \/ route = <<>> \/ curve = <<>>  \* route_indices[0], min(), fuel_curve[0]
       \/ cruising /\ \E i \in 1..Len(curve) :    \* x['speed'], ['consumption']
                         {"speed", "consumption"} \ DOMAIN curve[i] # {}
    THEN MetricsRaised
    ELSE
    LET total_distance == d[0][route[1]] + TotalDistance(route, d, 1)
        point == IF cruising
                 THEN ClosestPoint(curve, specs["cruising_speed"])
                 ELSE curve[(Len(curve) \div 2) + 1]
        knots == IF cruising THEN point.speed ELSE Get(point, "speed", 25)
        consumption == IF cruising THEN point.consumption
                       ELSE Get(point, "consumption", 1)
    IN  IF knots = 0
        THEN MetricsRaised              \* ZeroDivisionError
        ELSE
        LET \* average_speed_kmh = knots * 1.852 = knots * 463 / 250
            speed_den == 463 * knots
            congestion_hours == IF data # <<>>
                                THEN calculate_route_congestion(route, data)
                                ELSE 0
            idle_fuel_rate ==
                IF specs # None /\ "gross_tonnage" \in DOMAIN specs
                                /\ "propulsion_power" \in DOMAIN specs
                THEN calculate_idle_fuel_rate(specs["gross_tonnage"],
                                              specs["propulsion_power"])
                ELSE 15000
            \* total_distance * consumption / average_speed_kmh * 1176.5
            \*   = travel_n / (100 * speed_den) hundredths of a litre
            travel_n == BNMulSmall(BNMul(BNFromNat(total_distance * consumption),
                                         BNFromNat(29412500)), 100)
            \* congestion_hours * idle_fuel_rate, over the same denominator
            idle_n == BNMul(BNFromNat(congestion_hours * idle_fuel_rate),
                            BNFromNat(speed_den))
            total_n == BNAdd(travel_n, idle_n)
        IN  [exc |-> FALSE,
             distance_km |-> 100 * total_distance,
             fuel_liters |-> BNRoundDiv(total_n, speed_den, 100),
             \* total_fuel_liters / 1176.5 * co2_factor * 1000
             co2_kg |-> Co2Kg(total_n, factor, speed_den),
             travel_time_hours |->
                 RoundDiv(25000 * total_distance + congestion_hours * speed_den,
                          speed_den),
             congestion_hours |-> congestion_hours,
             idle_fuel_rate |-> idle_fuel_rate,
             travel_fuel_liters |-> BNRoundDiv(travel_n, speed_den, 100),
             congestion_fuel_liters |-> RoundDiv(congestion_hours * idle_fuel_rate, 100)]

(***************************************************************************)
(* Fitness.                                                                 *)
(***************************************************************************)
\* metric + 1e-6, in units of 1e-6.
PlusEpsilon(metric) == BNAdd(BNMulSmall(BNFromNat(metric), EpsPerCenti), <<1>>)

\* A score that is the distance of the route.
ScoreByDistance(m, fw, tw, cw) ==
    [exc |-> FALSE, num |-> BNFromNat(m.distance_km), den |-> <<1>>]

\* Lines 364-372: fuel_weight * 1 / (fuel_liters + 1e-6) and its like for the
\* time and the congestion, summed: the fraction num / den.
Score(m, fw, tw, cw) ==
    LET ef == BNMul(BNFromNat(fw.den), PlusEpsilon(m.fuel_liters))
        et == BNMul(BNFromNat(tw.den), PlusEpsilon(m.travel_time_hours))
        ec == BNMul(BNFromNat(cw.den), PlusEpsilon(m.congestion_hours))
        sum == BNAdd(BNMulSmall(BNMul(et, ec), fw.num),
                     BNAdd(BNMulSmall(BNMul(ef, ec), tw.num),
                           BNMulSmall(BNMul(ef, et), cw.num)))
    IN  [exc |-> FALSE,
         num |-> BNMulSmall(BNMulSmall(sum, EpsPerCenti), 100),
         den |-> BNMul(ef, BNMul(et, ec))]

FitnessRaised == [exc |-> TRUE, num |-> <<>>, den |-> <<1>>]

\* -1, 0 or 1 as the fitness a is below, equal to or above the fitness b.
FitnessCmp(a, b) == BNCmp(BNMul(a.num, b.den), BNMul(b.num, a.den))

\* A fitness from the metrics of the order as given, whatever the candidate.
FitnessOfGivenOrder(route, env) ==
    LET m == get_route_metrics(customer_ids(Len(route)), env.dist, env.fuel_curve,
                               env.co2_factor, env.ports_data, env.vessel_specs)
    IN  IF m.exc THEN FitnessRaised
        ELSE Score(m, env.fuel_weight, env.time_weight, env.congestion_weight)

\* fitness_func (lines 350-375) on the decoded order of a candidate; env is
\* what the closure holds of the run: the matrix, the curve, the factor, the
\* port data, the vessel and the normalized weights.
fitness_func(route, env) ==
    LET m == get_route_metrics(route, env.dist, env.fuel_curve, env.co2_factor,
                               env.ports_data, env.vessel_specs)
    IN  IF m.exc THEN FitnessRaised
        ELSE Score(m, env.fuel_weight, env.time_weight, env.congestion_weight)

\* The closure of the run in progress.
Closure ==
    [dist |-> dist, fuel_curve |-> fuel_curve, co2_factor |-> co2_factor,
     ports_data |-> ports_data, vessel_specs |-> vessel_specs,
     fuel_weight |-> fuel_weight, time_weight |-> time_weight,
     congestion_weight |-> congestion_weight]

(***************************************************************************)
(* SpecFit: candidates are evaluated one after another under the weights of *)
(* a caller, who may run again with other port data; the evaluation before  *)
(* the last is kept for comparison.                                         *)
(***************************************************************************)
\* Fuel curves (calculateFuelConsumptionCurve of the front end): samples of a
\* speed in knots and a consumption in tons per hour; a curve from standstill;
\* a sample without a speed; the sample of a vessel at rest.
FuelCurves ==
    { <<[speed |-> 10, consumption |-> 2], [speed |-> 20, consumption |-> 6]>>,
      <<[speed |-> 0, consumption |-> 0], [speed |-> 20, consumption |-> 6]>>,
      <<[consumption |-> 3]>>,
      <<[speed |-> 0, consumption |-> 1]>> }

\* vessel_specs as the endpoint builds it (app.py lines 665-670), or None.
VesselSpecs ==
    { None,
      [name |-> "ship", cruising_speed |-> 18, gross_tonnage |-> 90000,
       propulsion_power |-> 40] }

CO2Factors == {3114}

FitWeights ==
    { [fuel |-> 0, time |-> 0, congestion |-> 0],
      [fuel |-> 100, time |-> 0, congestion |-> 0],
      [fuel |-> 30, time |-> 50, congestion |-> 100] }

\* Port data in which every stop has a record of the same delay, or none.
FitPortsData(N) ==
    {<<>>} \cup {[k \in 1..N |-> [congestion_hours |-> h]] : h \in {100, 300}}

\* The matrix of a run in which no pair was routed, or the first pair only.
FitMatrices(c) ==
    {d \in DistMatrices(c) :
        \A i, j \in DOMAIN d :
            (i < j /\ d[i][j] \in RoutedLengths) => (i = 0 /\ j = 1)}

InitFit ==
    /\ pc = "fitness"
    /\ CallIdle /\ ApiIdle /\ ReviewIdle
    /\ DecodeIdle /\ EtaIdle /\ GAIdle
    /\ port_coords = [k \in 1..MaxFitStops |-> LayoutPoint(k - 1)]
    /\ dist \in FitMatrices(port_coords)
    /\ pair = <<0, 0>>
    /\ sr_last = [kind |-> "no_query"]
    /\ optimized_indices = <<>>
    /\ route_geometry = <<>>
    /\ ports_data \in FitPortsData(MaxFitStops)
    /\ total_congestion_hours = 0
    /\ weights \in FitWeights
    /\ fuel_weight = NormalizeWeights(weights).fuel_weight
    /\ time_weight = NormalizeWeights(weights).time_weight
    /\ congestion_weight = NormalizeWeights(weights).congestion_weight
    /\ fuel_curve \in FuelCurves
    /\ co2_factor \in CO2Factors
    /\ vessel_specs \in VesselSpecs
    /\ metrics = None
    /\ fitness = None
    /\ prev_metrics = None
    /\ prev_fitness = None

\* One call of fitness_func by the GA (lines 350-375): the candidate is
\* decoded, its metrics computed, its fitness returned.
Evaluate ==
    /\ pc = "fitness"
    /\ \E route \in UNION {Decode(sol) : sol \in [1..(NumPorts - 1) -> Genes]} :
            /\ route_indices' = route
            /\ metrics' = get_route_metrics(route, dist, fuel_curve, co2_factor,
                                            ports_data, vessel_specs)
            /\ fitness' = fitness_func(route, Closure)
            /\ pc' = IF fitness'.exc THEN "raised" ELSE "fitness"
    /\ prev_metrics' = IF metrics = None THEN prev_metrics ELSE metrics
    /\ prev_fitness' = IF metrics = None THEN prev_fitness ELSE fitness
    /\ UNCHANGED <<callVars, apiVars, reviewVars, solution, distVars, etaVars, congVars, weightVars, fuel_curve,
                   co2_factor, vessel_specs, gaVars>>

\* The caller runs again, with the same weights and other port data; the
\* evaluations of the run that is over are dropped but for the last.
RunAgain ==
    /\ pc = "fitness"
    /\ metrics # None
    /\ ports_data' \in FitPortsData(NumPorts) \ {ports_data}
    /\ prev_metrics' = metrics
    /\ prev_fitness' = fitness
    /\ metrics' = None
    /\ fitness' = None
    /\ UNCHANGED <<callVars, apiVars, reviewVars, pc, decodeVars, distVars, etaVars, total_congestion_hours,
                   weightVars, fuel_curve, co2_factor, vessel_specs, gaVars>>

NextFit == Evaluate \/ RunAgain

SpecFit == InitFit /\ [][NextFit]_vars

\* The claim's formula on the metrics m: the weighted sum of the reciprocals
\* of fuel, time and congestion, each plus 1e-6.
ClaimedFitness(m) == Score(m, fuel_weight, time_weight, congestion_weight)

StrictlySmaller(a, b) ==
    /\ a.fuel_liters < b.fuel_liters
    /\ a.travel_time_hours < b.travel_time_hours
    /\ a.congestion_hours < b.congestion_hours

\* C9: the fitness of a candidate is the weighted sum of 1/(fuel + 1e-6),
\* 1/(time + 1e-6) and 1/(congestion + 1e-6) of its own metrics, is defined
\* also where a metric is 0, and is strictly higher than the fitness of a
\* candidate whose fuel, time and congestion are all strictly larger.
C9_FitnessIsWeightedReciprocalSum ==
    (pc = "fitness" /\ metrics # None) =>
        /\ metrics = get_route_metrics(route_indices, dist, fuel_curve, co2_factor,
                                       ports_data, vessel_specs)
        /\ ~metrics.exc /\ ~fitness.exc
        /\ fitness = ClaimedFitness(metrics)
        /\ BNCmp(fitness.den, <<>>) > 0
        /\ prev_metrics # None =>
              /\ StrictlySmaller(metrics, prev_metrics)
                    => FitnessCmp(fitness, prev_fitness) > 0
              /\ StrictlySmaller(prev_metrics, metrics)
                    => FitnessCmp(fitness, prev_fitness) < 0

C9_Witness ==
    /\ pc = "fitness"
    /\ metrics # None /\ prev_metrics # None
    /\ metrics.congestion_hours = 0
    /\ StrictlySmaller(metrics, prev_metrics)
    /\ FitnessCmp(fitness, prev_fitness) > 0

\* |a - b| <= t for numbers in digits.
BNWithin(a, b, t) == BNCmp(a, BNAdd(b, t)) <= 0 /\ BNCmp(b, BNAdd(a, t)) <= 0

\* C24: the reported co2_kg is the CO2 of the reported fuel_liters at 1176.5
\* litres to the ton: co2_kg * 1176.5 = fuel_liters * co2_factor * 1000 up
\* to half a hundredth of each reported value, and the reported fuel_liters
\* is the travel fuel plus the idle fuel of the congestion, up to a
\* hundredth.
C24_Co2OfReportedFuel ==
    (metrics # None /\ ~metrics.exc) =>
        \* both sides times 2000: co2_kg in hundredths times 2 * 11765, and
        \* fuel_liters in hundredths times 20 * co2_factor in thousandths
        /\ BNWithin(BNMulSmall(BNFromNat(metrics.co2_kg), 2 * 11765),
                    BNMulSmall(BNMulSmall(BNFromNat(metrics.fuel_liters), co2_factor), 20),
                    BNFromNat(11765 + 10 * co2_factor))
        /\ metrics.fuel_liters - (metrics.travel_fuel_liters
                                     + metrics.congestion_fuel_liters) \in {-1, 0, 1}

\* A route scored with fuel burnt both under way and idle in congestion.
C24_Witness ==
    /\ metrics # None /\ ~metrics.exc
    /\ metrics.travel_fuel_liters > 0
    /\ metrics.congestion_fuel_liters > 0
    /\ metrics.co2_kg > 0

\* The speed of the sample get_route_metrics selects (lines 175, 188-189),
\* for a curve whose samples have a speed and a consumption.
SelectedSpeed ==
    IF vessel_specs # None /\ "cruising_speed" \in DOMAIN vessel_specs
    THEN ClosestPoint(fuel_curve, vessel_specs["cruising_speed"]).speed
    ELSE fuel_curve[(Len(fuel_curve) \div 2) + 1].speed

\* C29: get_route_metrics returns a metrics record, and raises nothing, when
\* the sample it selects has a speed of 0.
C29_ZeroSpeedReturnsRecord ==
    (/\ metrics # None
     /\ \A i \in 1..Len(fuel_curve) :
            {"speed", "consumption"} \subseteq DOMAIN fuel_curve[i]
     /\ SelectedSpeed = 0)
        => ~metrics.exc

(***************************************************************************)
(* SpecVessel: a two-stop route is scored for one vessel after another      *)
(* (get_route_metrics with its idle rate and its operating point).          *)
(***************************************************************************)
\* Gross tonnages at and around the ends of the bands, and powers in MW.
GrossTonnages ==
    {0, 24999, 25000, 25001, 99999, 100000, 100001, 199999, 200000, 200001, 600000}
Powers == {0, 40, 100, 900}
CruisingSpeeds == {12, 15, 18, 30}

\* Vessels as the endpoint builds them: every tonnage and power at one
\* cruising speed, every cruising speed at one tonnage and power.
VesselInputs ==
    {[name |-> "ship", cruising_speed |-> 18, gross_tonnage |-> g,
      propulsion_power |-> p] : g \in GrossTonnages, p \in Powers}
    \cup {[name |-> "ship", cruising_speed |-> c, gross_tonnage |-> 90000,
           propulsion_power |-> 40] : c \in CruisingSpeeds}

\* Curves in rising and in falling order of speed, and one with two samples
\* of the same speed.
VesselCurves ==
    { <<[speed |-> 10, consumption |-> 2], [speed |-> 20, consumption |-> 6]>>,
      <<[speed |-> 20, consumption |-> 6], [speed |-> 10, consumption |-> 2]>>,
      <<[speed |-> 10, consumption |-> 2], [speed |-> 15, consumption |-> 4],
        [speed |-> 20, consumption |-> 6], [speed |-> 15, consumption |-> 5]>> }

InitVessel ==
    /\ pc = "fitness"
    /\ CallIdle /\ ApiIdle /\ ReviewIdle
    /\ DecodeIdle /\ EtaIdle /\ GAIdle
    /\ port_coords = [k \in 1..2 |-> LayoutPoint(k - 1)]
    /\ dist \in {d \in DistMatrices(port_coords) : d[0][1] \notin RoutedLengths}
    /\ pair = <<0, 0>>
    /\ sr_last = [kind |-> "no_query"]
    /\ optimized_indices = <<>>
    /\ route_geometry = <<>>
    /\ ports_data = <<>>
    /\ total_congestion_hours = 0
    /\ weights = None
    /\ fuel_weight = NormalizeWeights(weights).fuel_weight
    /\ time_weight = NormalizeWeights(weights).time_weight
    /\ congestion_weight = NormalizeWeights(weights).congestion_weight
    /\ fuel_curve \in VesselCurves
    /\ co2_factor \in CO2Factors
    /\ vessel_specs \in VesselInputs
    /\ metrics = None
    /\ fitness = None
    /\ prev_metrics = None
    /\ prev_fitness = None

\* The next run is for another vessel with the same curve.
OtherVessel ==
    /\ pc = "fitness"
    /\ metrics # None
    /\ vessel_specs' \in VesselInputs \ {vessel_specs}
    /\ prev_metrics' = metrics
    /\ prev_fitness' = fitness
    /\ metrics' = None
    /\ fitness' = None
    /\ UNCHANGED <<callVars, apiVars, reviewVars, pc, decodeVars, distVars, etaVars, congVars,
                   weightVars, fuel_curve, co2_factor, gaVars>>

NextVessel == Evaluate \/ OtherVessel

SpecVessel == InitVessel /\ [][NextVessel]_vars

\* C18: the idle rate of a vessel is no less than the idle rate of any vessel
\* of the same propulsion power and a smaller gross tonnage, also across the
\* ends of the bands at 25,000, 100,000 and 200,000 GT, and it is between 20
\* and 2000 L/h for every gross tonnage and power.
C18_IdleRateMonotoneAndBounded ==
    (pc = "fitness" /\ metrics # None) =>
        /\ metrics.idle_fuel_rate >= 2000
        /\ metrics.idle_fuel_rate <= 200000
        /\ \A g \in GrossTonnages :
              g <= vessel_specs.gross_tonnage =>
                  calculate_idle_fuel_rate(g, vessel_specs.propulsion_power)
                      <= metrics.idle_fuel_rate

\* A vessel at the end of a band is rated between the bounds, above a smaller
\* vessel of the band below.
C18_Witness ==
    /\ pc = "fitness" /\ metrics # None
    /\ vessel_specs.gross_tonnage \in {25000, 100000, 200000}
    /\ metrics.idle_fuel_rate > 2000
    /\ metrics.idle_fuel_rate < 200000
    /\ \E g \in GrossTonnages :
          /\ g < vessel_specs.gross_tonnage
          /\ calculate_idle_fuel_rate(g, vessel_specs.propulsion_power)
                < metrics.idle_fuel_rate

\* Whether sample i of the curve is the closest to the cruising speed, and
\* the first of the samples that close.
FirstClosest(i) ==
    LET away(k) == Abs(fuel_curve[k].speed - vessel_specs.cruising_speed)
    IN  \A j \in 1..Len(fuel_curve) :
            /\ away(i) <= away(j)
            /\ away(i) = away(j) => i <= j

\* C20: with a cruising speed, the route is scored at the sample of the fuel
\* curve whose speed is the closest to the cruising speed, the first of them
\* in the curve when several are as close: the fuel of the travel is the
\* distance times the sample's consumption over its speed x 1.852 (in litres
\* of 1176.5 to the ton), and the travel time the distance over that speed.
C20_ClosestSampleFirstOnTies ==
    (pc = "fitness" /\ metrics # None) =>
        \E i \in 1..Len(fuel_curve) :
            /\ FirstClosest(i)
            /\ metrics.travel_fuel_liters =
                  BNRoundDiv(BNMul(BNFromNat(dist[0][1] * fuel_curve[i].consumption),
                                   BNFromNat(29412500)),
                             463 * fuel_curve[i].speed, 1)
            /\ metrics.travel_time_hours =
                  RoundDiv(25000 * dist[0][1], 463 * fuel_curve[i].speed)

\* A route has been scored for a cruising speed as far from one sample as
\* from a later one of another consumption.
C20_Witness ==
    /\ pc = "fitness" /\ metrics # None
    /\ \E i, j \in 1..Len(fuel_curve) :
          /\ i < j
          /\ FirstClosest(i)
          /\ Abs(fuel_curve[i].speed - vessel_specs.cruising_speed)
                = Abs(fuel_curve[j].speed - vessel_specs.cruising_speed)
          /\ fuel_curve[i].consumption # fuel_curve[j].consumption

(***************************************************************************)
(* The genetic algorithm (pygad.GA of lines 378-395, best_solution of line  *)
(* 400).                                                                    *)
(*                                                                          *)
(* The population is held as the set of the orders its 50 key vectors       *)
(* decode to.  No random_seed is passed to pygad.GA: the initial keys, the  *)
(* tournaments, the crossover points and the mutations are free choices,    *)
(* so every order may appear among the offspring of a generation.           *)
(* fitness_func takes three parameters, which is pygad 2.20 or later, where *)
(* keep_elitism defaults to 1: the best solution of a generation is copied  *)
(* into the next.                                                           *)
(***************************************************************************)
NumGenerations == 200

\* The orders of the stops 1..N-1 of a run with the matrix d.
Orders(d) == Perms(1..(Cardinality(DOMAIN d) - 1))

\* The runs the search is checked on: the stops of LayoutPoint, no routed
\* pair (the two stops then tie) or the first pair routed; no port data, no
\* vessel, default weights.
GAClosures ==
    LET c == [k \in 1..MaxGAStops |-> LayoutPoint(k - 1)]
        w == NormalizeWeights(None)
    IN  {[dist |-> d,
          fuel_curve |-> <<[speed |-> 10, consumption |-> 2],
                           [speed |-> 20, consumption |-> 6]>>,
          co2_factor |-> 3114, ports_data |-> <<>>, vessel_specs |-> None,
          fuel_weight |-> w.fuel_weight, time_weight |-> w.time_weight,
          congestion_weight |-> w.congestion_weight] : d \in FitMatrices(c)}

\* The place of each order in the sort by fitness (steady-state selection
\* sorts last_generation_fitness): the number of orders of a lower fitness.
\* fitness_func is a function of the order and the closure alone.
FitnessRank(env) ==
    LET f == [r \in Orders(env.dist) |-> fitness_func(r, env)] @@ <<>>
    IN  [r \in Orders(env.dist) |->
            Cardinality({q \in Orders(env.dist) : FitnessCmp(f[q], f[r]) < 0})]

\* Whether no order of pop has a higher fitness than r.
IsBestOf(r, pop) == \A q \in pop : fitness_rank[r] >= fitness_rank[q]

\* The solutions of the highest fitness in a population (steady-state
\* selection of the elite; best_solution's np.where(fitness == max)).
BestOf(pop) == {r \in pop : IsBestOf(r, pop)}

\* A next population of offspring only.
OffspringOnly(elite, offspring) == offspring

\* The next population: the elite, then the offspring.
NextPopulation(elite, offspring) == {elite} \cup offspring

(***************************************************************************)
(* SpecGA: run_route_optimization from the GA's construction to             *)
(* best_solution.                                                           *)
(***************************************************************************)
InitGA ==
    /\ pc = "ga_create"
    /\ CallIdle /\ ApiIdle /\ ReviewIdle
    /\ DecodeIdle /\ EtaIdle
    /\ \E env \in GAClosures :
          /\ dist = env.dist
          /\ fuel_curve = env.fuel_curve
          /\ co2_factor = env.co2_factor
          /\ ports_data = env.ports_data
          /\ vessel_specs = env.vessel_specs
          /\ fuel_weight = env.fuel_weight
          /\ time_weight = env.time_weight
          /\ congestion_weight = env.congestion_weight
          /\ fitness_rank = FitnessRank(env)
    /\ port_coords = [k \in 1..MaxGAStops |-> LayoutPoint(k - 1)]
    /\ pair = <<0, 0>>
    /\ sr_last = [kind |-> "no_query"]
    /\ optimized_indices = <<>>
    /\ route_geometry = <<>>
    /\ total_congestion_hours = 0
    /\ weights = None
    /\ metrics = None /\ fitness = None
    /\ prev_metrics = None /\ prev_fitness = None
    /\ population = {}
    /\ generations_completed = 0
    /\ best_evaluated = <<>>
    /\ run = 1
    /\ first_result = <<>>

\* The best of the orders evaluated so far, after pop is evaluated.
BestEvaluated(pop) ==
    IF best_evaluated # <<>> /\ IsBestOf(best_evaluated, pop)
    THEN {best_evaluated}
    ELSE BestOf(pop)

\* pygad.GA(...) and the start of run(): a random initial population, which
\* is evaluated.
CreateGA ==
    /\ pc = "ga_create"
    /\ population' \in SUBSET Orders(dist) \ {{}}
    /\ generations_completed' = 0
    /\ best_evaluated' \in BestEvaluated(population')
    /\ pc' = "ga_run"
    /\ UNCHANGED <<callVars, apiVars, reviewVars, decodeVars, distVars, etaVars, congVars, weightVars, fitVars,
                   fitness_rank, run, first_result>>

\* One generation of run(): the elite is kept, parents are drawn by
\* tournament, crossed and mutated into the offspring, and the new
\* population is evaluated.
Generation ==
    /\ pc = "ga_run"
    /\ generations_completed < NumGenerations
    /\ population' \in {NextPopulation(elite, offspring) :
                            elite \in BestOf(population),
                            offspring \in SUBSET Orders(dist) \ {{}}}
    /\ generations_completed' = generations_completed + 1
    /\ best_evaluated' \in BestEvaluated(population')
    /\ UNCHANGED <<callVars, apiVars, reviewVars, pc, decodeVars, distVars, etaVars, congVars, weightVars,
                   fitVars, fitness_rank, run, first_result>>

\* Lines 400-401: run() is over; best_solution() gives the best of the
\* population it holds.
BestSolution ==
    /\ pc = "ga_run"
    /\ generations_completed = NumGenerations
    /\ optimized_indices' \in BestOf(population)
    /\ pc' = "ga_done"
    /\ UNCHANGED <<callVars, apiVars, reviewVars, decodeVars, port_coords, dist, pair, sr_last, route_geometry,
                   etaVars, congVars, weightVars, fitVars, gaVars>>

NextGA == CreateGA \/ Generation \/ BestSolution

\* run() loops without waiting on anything: each step that can be taken is
\* taken.
SpecGA == InitGA /\ [][NextGA]_vars /\ WF_vars(NextGA)

\* C8: the search ends after exactly 200 generations (the count of
\* generations grows by one with each pass of the loop, the loop goes on
\* until the count is 200, and best_solution follows), and the order
\* returned as best has a fitness at least that of every order evaluated in
\* any generation of the run.
C8_BudgetAndBestSeen ==
    /\ [](/\ generations_completed <= NumGenerations
          /\ pc = "ga_run" =>
                /\ generations_completed < NumGenerations => ENABLED Generation
                /\ generations_completed = NumGenerations => ENABLED BestSolution
          /\ pc = "ga_done" =>
                /\ generations_completed = NumGenerations
                /\ FitnessCmp(fitness_func(optimized_indices, Closure),
                              fitness_func(best_evaluated, Closure)) >= 0)
    /\ [][/\ generations_completed' >= generations_completed
          /\ (pc = "ga_run" /\ pc' = "ga_run")
                => generations_completed' = generations_completed + 1
          /\ pc' = "ga_done" => generations_completed = NumGenerations]_vars

C8_Witness ==
    /\ pc = "ga_done"
    /\ generations_completed = NumGenerations
    /\ optimized_indices = best_evaluated
    /\ \E q \in Orders(dist) : fitness_rank[q] < fitness_rank[optimized_indices]

(***************************************************************************)
(* SpecGATwice: run_route_optimization is called a second time with the     *)
(* arguments of the first call.  The function has no parameter for a seed.  *)
(***************************************************************************)
SecondRun ==
    /\ pc = "ga_done"
    /\ run = 1
    /\ run' = 2
    /\ first_result' = optimized_indices
    /\ optimized_indices' = <<>>
    /\ population' = {}
    /\ generations_completed' = 0
    /\ best_evaluated' = <<>>
    /\ pc' = "ga_create"
    /\ UNCHANGED <<callVars, apiVars, reviewVars, decodeVars, port_coords, dist, pair, sr_last, route_geometry,
                   etaVars, congVars, weightVars, fitVars, fitness_rank>>

NextGATwice == NextGA \/ SecondRun

SpecGATwice == InitGA /\ [][NextGATwice]_vars /\ WF_vars(NextGATwice)

\* C10: two runs with the same arguments return the same order.
C10_SameResultTwice ==
    (pc = "ga_done" /\ run = 2) => optimized_indices = first_result

\* A bound on the generations of a run that a caller may wish to impose:
\* half of what the search is built with.
CallerBound == NumGenerations \div 2

\* C23: a run on which the caller imposes a bound stops when the bound is
\* reached: it completes no generation beyond it.
C23_RunStopsAtCallerBound ==
    generations_completed <= CallerBound

(***************************************************************************)
(* SpecSquare: the search on four stops at the corners of a square, the     *)
(* origin at one corner, every pair at its great-circle distance, default   *)
(* weights.                                                                 *)
(***************************************************************************)
\* The corners: stops 1 and 2 are the origin's neighbours, stop 3 is across.
SquareCoords == [k \in 1..4 |-> LayoutPoint(k - 1)]

SquareClosures ==
    LET w == NormalizeWeights(None)
    IN  {[dist |-> d,
          fuel_curve |-> <<[speed |-> 10, consumption |-> 2],
                           [speed |-> 20, consumption |-> 6]>>,
          co2_factor |-> 3114, ports_data |-> <<>>, vessel_specs |-> None,
          fuel_weight |-> w.fuel_weight, time_weight |-> w.time_weight,
          congestion_weight |-> w.congestion_weight] :
            d \in {e \in DistMatrices(SquareCoords) :
                      \A i, j \in DOMAIN e : e[i][j] \notin RoutedLengths}}

InitSquare ==
    /\ pc = "ga_create"
    /\ CallIdle /\ ApiIdle /\ ReviewIdle
    /\ DecodeIdle /\ EtaIdle
    /\ \E env \in SquareClosures :
          /\ dist = env.dist
          /\ fuel_curve = env.fuel_curve
          /\ co2_factor = env.co2_factor
          /\ ports_data = env.ports_data
          /\ vessel_specs = env.vessel_specs
          /\ fuel_weight = env.fuel_weight
          /\ time_weight = env.time_weight
          /\ congestion_weight = env.congestion_weight
          /\ fitness_rank = FitnessRank(env)
    /\ port_coords = SquareCoords
    /\ pair = <<0, 0>>
    /\ sr_last = [kind |-> "no_query"]
    /\ optimized_indices = <<>>
    /\ route_geometry = <<>>
    /\ total_congestion_hours = 0
    /\ weights = None
    /\ metrics = None /\ fitness = None
    /\ prev_metrics = None /\ prev_fitness = None
    /\ population = {}
    /\ generations_completed = 0
    /\ best_evaluated = <<>>
    /\ run = 1
    /\ first_result = <<>>

SpecSquare == InitSquare /\ [][NextGA]_vars /\ WF_vars(NextGA)

\* The length of the tour from the origin through the stops of route.
RouteDistance(route) == dist[0][route[1]] + TotalDistance(route, dist, 1)

\* C11: on the square the order returned as best has the least total
\* distance of all orders (it follows the sides and crosses no diagonal).
C11_ReturnsMinimumDistance ==
    pc = "ga_done" =>
        \A q \in Orders(dist) :
            RouteDistance(optimized_indices) <= RouteDistance(q)

(***************************************************************************)
(* SpecRank: the candidates of one run are evaluated one after another by   *)
(* fitness_func, over port data whose delays differ from stop to stop;      *)
(* fitness_rank is the sort of all orders by fitness.                       *)
(***************************************************************************)
\* Weights of a caller, among them a congestion weight alone.
RankWeights ==
    FitWeights \cup {[fuel |-> 0, time |-> 0, congestion |-> 100],
                     [fuel |-> 0, time |-> 50, congestion |-> 50]}

\* No port data, a record for each stop (the delays all different), or
\* records for the origin and the first stop only.
RankPortsData(N) ==
    {<<>>, [k \in 1..N |-> [congestion_hours |-> 100 * k]],
     [k \in 1..2 |-> [congestion_hours |-> 100 * k]]}

InitRank ==
    /\ pc = "fitness"
    /\ CallIdle /\ ApiIdle /\ ReviewIdle
    /\ DecodeIdle /\ EtaIdle
    /\ port_coords = [k \in 1..MaxFitStops |-> LayoutPoint(k - 1)]
    /\ dist \in FitMatrices(port_coords)
    /\ pair = <<0, 0>>
    /\ sr_last = [kind |-> "no_query"]
    /\ optimized_indices = <<>>
    /\ route_geometry = <<>>
    /\ ports_data \in RankPortsData(MaxFitStops)
    /\ total_congestion_hours = 0
    /\ weights \in RankWeights
    /\ fuel_weight = NormalizeWeights(weights).fuel_weight
    /\ time_weight = NormalizeWeights(weights).time_weight
    /\ congestion_weight = NormalizeWeights(weights).congestion_weight
    /\ fuel_curve = <<[speed |-> 10, consumption |-> 2], [speed |-> 20, consumption |-> 6]>>
    /\ co2_factor \in CO2Factors
    /\ vessel_specs \in VesselSpecs
    /\ metrics = None
    /\ fitness = None
    /\ prev_metrics = None
    /\ prev_fitness = None
    /\ population = {}
    /\ generations_completed = 0
    /\ best_evaluated = <<>>
    /\ run = 1
    /\ first_result = <<>>
    /\ fitness_rank =
          FitnessRank([dist |-> dist, fuel_curve |-> fuel_curve,
                       co2_factor |-> co2_factor, ports_data |-> ports_data,
                       vessel_specs |-> vessel_specs, fuel_weight |-> fuel_weight,
                       time_weight |-> time_weight,
                       congestion_weight |-> congestion_weight])

\* One call of fitness_func (lines 350-375) on a candidate of the run; the
\* evaluation before it is kept.
EvaluateCandidate ==
    /\ pc = "fitness"
    /\ \E route \in Orders(dist) :
            /\ route_indices' = route
            /\ metrics' = get_route_metrics(route, dist, fuel_curve, co2_factor,
                                            ports_data, vessel_specs)
            /\ fitness' = fitness_func(route, Closure)
    /\ prev_metrics' = metrics
    /\ prev_fitness' = fitness
    /\ UNCHANGED <<callVars, apiVars, reviewVars, pc, solution, distVars, etaVars, congVars,
                   weightVars, fuel_curve, co2_factor, vessel_specs, gaVars>>

SpecRank == InitRank /\ [][EvaluateCandidate]_vars

\* Two candidates of the run have been evaluated.
TwoEvaluated == metrics # None /\ prev_metrics # None

\* The fitness of the metrics m without its congestion term.
ScoreWithoutCongestion(m) ==
    Score(m, fuel_weight, time_weight, [num |-> 0, den |-> 1])

\* C25: any two candidates of a run have the same congestion_hours, and the
\* order of their fitness is the order of their fitness without the
\* congestion term.
C25_CongestionTermConstant ==
    TwoEvaluated =>
        /\ metrics.congestion_hours = prev_metrics.congestion_hours
        /\ FitnessCmp(fitness, prev_fitness)
              = FitnessCmp(ScoreWithoutCongestion(metrics),
                           ScoreWithoutCongestion(prev_metrics))

\* Two candidates of different lengths, evaluated over port data with
\* delays, under a positive congestion weight.
C25_Witness ==
    /\ TwoEvaluated
    /\ metrics.distance_km # prev_metrics.distance_km
    /\ metrics.congestion_hours > 0
    /\ congestion_weight.num > 0
    /\ FitnessCmp(fitness, prev_fitness) # 0

\* The orders of the least total distance.
Shortest == {r \in Orders(dist) : \A q \in Orders(dist) : RouteDistance(r) <= RouteDistance(q)}

\* The orders of the highest fitness.
Fittest == {r \in Orders(dist) : \A q \in Orders(dist) : fitness_rank[r] >= fitness_rank[q]}

\* A candidate that is no longer than another has at least its fitness.
ShorterIsNoWorse ==
    TwoEvaluated =>
        (metrics.distance_km <= prev_metrics.distance_km
            => FitnessCmp(fitness, prev_fitness) >= 0)

\* C26 as claimed: a candidate no longer than another has at least its
\* fitness, and a candidate of the highest fitness of all orders is an order
\* of the least total distance, whatever the weights.
C26_Original ==
    /\ ShorterIsNoWorse
    /\ metrics # None => (route_indices \in Fittest => route_indices \in Shortest)

\* C26: a candidate no longer than another has at least its fitness; a
\* candidate of the least total distance has the highest fitness of all
\* orders; and a candidate of the highest fitness has the least total
\* distance when the fuel weight or the time weight is positive.
C26_ShortestIsFittest ==
    /\ ShorterIsNoWorse
    /\ metrics # None =>
          /\ route_indices \in Shortest => route_indices \in Fittest
          /\ (fuel_weight.num > 0 \/ time_weight.num > 0) =>
                (route_indices \in Fittest => route_indices \in Shortest)

\* Two candidates of different lengths and fitness have been evaluated.
C26_Witness ==
    /\ TwoEvaluated
    /\ metrics.distance_km < prev_metrics.distance_km
    /\ FitnessCmp(fitness, prev_fitness) > 0
    /\ Shortest # Orders(dist)

(***************************************************************************)
(* A call of run_route_optimization, from its arguments to its return.      *)
(*                                                                          *)
(* The matrix loop and the search are taken in one step each here (SpecDist *)
(* and SpecGA model them pass by pass): the matrix is one the loop can      *)
(* build, and the order returned as best is the best of the last            *)
(* population, which the unseeded search may have filled with any order.    *)
(* The schedule is calculate_detailed_eta's, leg by leg.  The instant 0 is  *)
(* 2024-01-01 00:00:00.                                                     *)
(***************************************************************************)
MaxCallStops == 3   \* N of a call ranges over 2..MaxCallStops

\* Start times as callers give them: well formed, of another format, None,
\* a number.
StartInputs ==
    { [str |-> "2024-01-01 00:00:00"], [str |-> "2024-01-01T00:00:00Z"],
      None, [int |-> 1704067200] }

\* datetime.strptime(s, '%Y-%m-%d %H:%M:%S'): TypeError for what is no string,
\* ValueError for a string of another format, else the instant.
strptime(s) ==
    IF s = None \/ "str" \notin DOMAIN s
    THEN [exc |-> "TypeError", value |-> 0]
    ELSE CASE s.str = "2024-01-01 00:00:00" -> [exc |-> "", value |-> 0]
           [] s.str = "2024-01-02 12:00:00" -> [exc |-> "", value |-> 36 * TicksPerHour]
           [] OTHER -> [exc |-> "ValueError", value |-> 0]

\* datetime.now(): some instant, with a fraction of a second.
Nows == {50 * TicksPerHour + 250, 60 * TicksPerHour}

\* A parse whose except clause names ValueError alone.
ParseStartValueErrorOnly(s, now) ==
    LET r == strptime(s)
    IN  IF r.exc = "ValueError" THEN [exc |-> "", value |-> now] ELSE r

\* Lines 435-440: the parse, and now() for a ValueError or a TypeError.
ParseStart(s, now) ==
    LET r == strptime(s)
    IN  IF r.exc \in {"ValueError", "TypeError"} THEN [exc |-> "", value |-> now] ELSE r

\* The weights of the calls: None, all zero, no 'congestion', and a full dict.
CallWeights ==
    { None,
      [fuel |-> 0, time |-> 0, congestion |-> 0],
      [fuel |-> 50, time |-> 50],
      [fuel |-> 30, time |-> 50, congestion |-> 100] }

FullVesselSpecs ==
    [name |-> "ship", cruising_speed |-> 18, gross_tonnage |-> 90000,
     propulsion_power |-> 40]

\* The vessel of the calls: None, every key given, one key missing, the name
\* alone.
CallVesselSpecs ==
    {None, FullVesselSpecs, [name |-> "ship"]}
        \cup {[k \in DOMAIN FullVesselSpecs \ {lacking} |-> FullVesselSpecs[k]] :
                lacking \in DOMAIN FullVesselSpecs}

\* A curve whose middle sample is not the one closest to the cruising speed.
CallFuelCurve ==
    <<[speed |-> 10, consumption |-> 2], [speed |-> 15, consumption |-> 4],
      [speed |-> 20, consumption |-> 6]>>

\* No port data, or a record for each stop, the delays all different.
CallPortsData(N) == {<<>>, [k \in 1..N |-> [congestion_hours |-> 100 * k]]}

\* The metrics of the order as given, without the vessel.
StandardWithoutVessel(d, curve, factor, data, specs) ==
    get_route_metrics(customer_ids(Cardinality(DOMAIN d) - 1), d, curve, factor,
                      data, None)

\* Lines 405-406: the metrics of customer_ids, the order as given.
StandardMetrics(d, curve, factor, data, specs) ==
    get_route_metrics(customer_ids(Cardinality(DOMAIN d) - 1), d, curve, factor,
                      data, specs)

InitCall ==
    /\ pc = "call_weights"
    /\ DecodeIdle /\ GAIdle /\ ApiIdle /\ ReviewIdle
    /\ \E N \in 2..MaxCallStops :
          /\ port_coords = [k \in 1..N |-> LayoutPoint(k - 1)]
          /\ ports_data \in CallPortsData(N)
    /\ fuel_curve = CallFuelCurve
    /\ co2_factor \in CO2Factors
    /\ start_datetime_str \in StartInputs
    /\ port_stay_hours = 24 * TicksPerHour
    /\ weights \in CallWeights
    /\ vessel_specs \in CallVesselSpecs
    /\ dist = <<>>
    /\ pair = <<0, 0>>
    /\ sr_last = [kind |-> "no_query"]
    /\ optimized_indices = <<>>
    /\ route_geometry = <<>>
    /\ average_speed_kmh = 0
    /\ start_datetime = 0
    /\ eta_i = 0
    /\ current_time = 0
    /\ eta_details = <<>>
    /\ total_congestion_hours = 0
    /\ fuel_weight = Unset /\ time_weight = Unset /\ congestion_weight = Unset
    /\ metrics = None /\ fitness = None
    /\ prev_metrics = None /\ prev_fitness = None
    /\ optimized_metrics = None
    /\ standard_metrics = None
    /\ exception = ""
    /\ first_call = None

\* What a step leaves alone when the call raises.
CallRaises(e) ==
    /\ pc' = "raised"
    /\ exception' = e

\* Lines 293-309.
CallNormalize ==
    /\ pc = "call_weights"
    /\ LET r == NormalizeWeights(weights)
       IN  /\ fuel_weight' = r.fuel_weight
           /\ time_weight' = r.time_weight
           /\ congestion_weight' = r.congestion_weight
           /\ IF r.exc
              THEN CallRaises("KeyError")
              ELSE pc' = "call_matrix" /\ UNCHANGED exception
    /\ UNCHANGED <<weights, decodeVars, distVars, etaVars, congVars, fitVars, gaVars,
                   start_datetime_str, optimized_metrics, standard_metrics, first_call,
                   apiVars, reviewVars>>

\* Lines 317-339: the matrix of the stops (every routing failure falls back,
\* so the loop raises nothing).
CallMatrix ==
    /\ pc = "call_matrix"
    /\ dist' \in IF Len(port_coords) = 1 THEN {ZeroMatrix(1)}
                 ELSE FitMatrices(port_coords)
    /\ pc' = "call_search"
    /\ UNCHANGED <<port_coords, pair, sr_last, optimized_indices, route_geometry,
                   decodeVars, etaVars, congVars, weightVars, fitVars, gaVars,
                   callVars, apiVars, reviewVars>>

\* Lines 350-401: the search.  Without a stop to order, num_genes is 0:
\* pygad.GA rejects it with a ValueError, and a fitness_func that is called
\* all the same takes route_indices[0] of an empty order (IndexError, line
\* 165).  An exception of fitness_func ends the call.
CallSearch ==
    /\ pc = "call_search"
    /\ IF Len(port_coords) = 1
       THEN /\ \E e \in {"ValueError", "IndexError"} : CallRaises(e)
            /\ UNCHANGED optimized_indices
       ELSE IF fitness_func(customer_ids(Len(port_coords) - 1), Closure).exc
       THEN /\ CallRaises("fitness_func")
            /\ UNCHANGED optimized_indices
       ELSE /\ optimized_indices' \in Orders(dist)
            /\ pc' = "call_metrics"
            /\ UNCHANGED exception
    /\ UNCHANGED <<port_coords, dist, pair, sr_last, route_geometry,
                   decodeVars, etaVars, congVars, weightVars, fitVars, gaVars,
                   start_datetime_str, optimized_metrics, standard_metrics, first_call,
                   apiVars, reviewVars>>

\* Lines 402-432: the two metric records, and the improvements in percent of
\* the standard fuel, time and distance.
CallMetrics ==
    /\ pc = "call_metrics"
    /\ optimized_metrics' = get_route_metrics(optimized_indices, dist, fuel_curve,
                                              co2_factor, ports_data, vessel_specs)
    /\ standard_metrics' = StandardMetrics(dist, fuel_curve, co2_factor, ports_data,
                                           vessel_specs)
    /\ IF optimized_metrics'.exc \/ standard_metrics'.exc
       THEN CallRaises("get_route_metrics")
       ELSE IF \/ standard_metrics'.fuel_liters = 0
               \/ standard_metrics'.travel_time_hours = 0
               \/ standard_metrics'.distance_km = 0
       THEN CallRaises("ZeroDivisionError")
       ELSE pc' = "call_parse" /\ UNCHANGED exception
    /\ UNCHANGED <<decodeVars, distVars, etaVars, congVars, weightVars, fitVars, gaVars,
                   start_datetime_str, first_call, apiVars, reviewVars>>

\* Lines 434-444: the start time, and the speed of the schedule (the middle
\* sample's, as it stands in the curve).
CallParseStart ==
    /\ pc = "call_parse"
    /\ \E now \in Nows :
          LET r == ParseStart(start_datetime_str, now)
          IN  IF r.exc # ""
              THEN /\ CallRaises(r.exc)
                   /\ UNCHANGED <<start_datetime, current_time, average_speed_kmh>>
              ELSE /\ start_datetime' = r.value
                   /\ current_time' = r.value
                   /\ average_speed_kmh' =
                          Get(fuel_curve[(Len(fuel_curve) \div 2) + 1], "speed", 25)
                   /\ pc' = "eta"
                   /\ UNCHANGED exception
    /\ UNCHANGED <<port_stay_hours, eta_i, eta_details, decodeVars, distVars, congVars,
                   weightVars, fitVars, gaVars, start_datetime_str, optimized_metrics,
                   standard_metrics, first_call, apiVars, reviewVars>>

\* A geometry step that stores the length of the first leg it fetches back
\* into the matrix.
CallReturnStoringLeg ==
    /\ pc = "eta_done"
    /\ pc' = "returned"
    /\ dist' = [dist EXCEPT ![0][optimized_indices[1]] = 260]
    /\ UNCHANGED <<port_coords, pair, sr_last, optimized_indices, route_geometry,
                   decodeVars, etaVars, congVars, weightVars, fitVars, gaVars,
                   callVars, apiVars, reviewVars>>

\* Lines 459-490: the geometry of the best order (SpecDist's loop, which
\* raises nothing), and the return of the result.
CallReturn ==
    /\ pc = "eta_done"
    /\ pc' = "returned"
    /\ UNCHANGED <<decodeVars, distVars, etaVars, congVars, weightVars, fitVars, gaVars,
                   callVars, apiVars, reviewVars>>

NextCall ==
    \/ CallNormalize \/ CallMatrix \/ CallSearch \/ CallMetrics \/ CallParseStart
    \/ EtaLeg \/ EtaReturn \/ CallReturn

SpecCall == InitCall /\ [][NextCall]_vars

\* C12: a call that returns has standard_metrics equal to get_route_metrics of
\* the order as given, 1..N-1, and optimized_metrics equal to get_route_metrics
\* of the best order, both with the matrix, the fuel curve, the CO2 factor,
\* the port data and the vessel of the call; when the best order is the order
\* as given, the two records are the same.
C12_StandardMetricsOfGivenOrder ==
    pc \in {"call_parse", "eta", "eta_done", "returned"} =>
        LET given == [k \in 1..(Len(port_coords) - 1) |-> k]
        IN  /\ standard_metrics = get_route_metrics(given, dist, fuel_curve, co2_factor,
                                                    ports_data, vessel_specs)
            /\ optimized_metrics = get_route_metrics(optimized_indices, dist, fuel_curve,
                                                     co2_factor, ports_data, vessel_specs)
            /\ optimized_indices = given => optimized_metrics = standard_metrics

\* A call has returned whose best order is not the order as given, the two
\* records differing, for a vessel with a cruising speed and port data.
C12_Witness ==
    /\ pc = "returned"
    /\ optimized_indices # [k \in 1..(Len(port_coords) - 1) |-> k]
    /\ optimized_metrics # standard_metrics
    /\ vessel_specs = FullVesselSpecs
    /\ ports_data # <<>>

\* Whether the weights of the call are degraded: None, a key missing, or all
\* zero.
DegradedWeights ==
    \/ weights = None
    \/ ~(WeightKeys \subseteq DOMAIN weights)
    \/ \A k \in WeightKeys : weights[k] = 0

Lacks(key) == vessel_specs = None \/ key \notin DOMAIN vessel_specs

\* C15: for weights that are None, lack a key or are all zero, and for a
\* vessel that lacks any of its keys, the call raises nothing and returns
\* with the defaults: balanced weights, the middle sample of the fuel curve
\* as the operating point, an idle rate of 150 L/h.
C15_DegradedInputRecovered ==
    /\ pc # "raised"
    /\ pc = "returned" =>
          /\ DegradedWeights =>
                (fuel_weight = time_weight /\ time_weight = congestion_weight)
          /\ Lacks("cruising_speed") =>
                optimized_metrics =
                    get_route_metrics(optimized_indices, dist,
                                      <<fuel_curve[(Len(fuel_curve) \div 2) + 1]>>,
                                      co2_factor, ports_data, vessel_specs)
          /\ (Lacks("gross_tonnage") \/ Lacks("propulsion_power")) =>
                optimized_metrics.idle_fuel_rate = 15000

\* C16: a start time that cannot be parsed (a string of another format, or
\* no string at all) does not make the call fail: the parse step goes on to
\* the schedule with the best order and the metrics as they were, the
\* schedule starts from the current time, and the metrics returned are those
\* of the best order, in which the start time has no part.
C16_UnparsableStartFallsBackToNow ==
    /\ []((strptime(start_datetime_str).exc # "" /\ pc \in {"eta", "eta_done", "returned"}) =>
            /\ start_datetime \in Nows
            /\ eta_details # <<>> =>
                  eta_details[1].eta =
                      strftime(start_datetime
                                 + LegTravelTime(dist[0][optimized_indices[1]],
                                                 average_speed_kmh))
            /\ optimized_metrics = get_route_metrics(optimized_indices, dist, fuel_curve,
                                                     co2_factor, ports_data, vessel_specs))
    /\ [][pc = "call_parse" =>
            /\ pc' = "eta"
            /\ current_time' = start_datetime'
            /\ UNCHANGED <<optimized_indices, optimized_metrics, standard_metrics>>]_vars

\* A call has returned whose start time was no string: its schedule starts
\* from the current time.
C16_Witness ==
    /\ pc = "returned"
    /\ strptime(start_datetime_str).exc = "TypeError"
    /\ start_datetime \in Nows
    /\ Len(eta_details) >= 2

\* C22: once the matrix loop is over, no step of the call (the search with
\* its fitness evaluations, the two metric computations, the parse, the ETA
\* legs, the geometry and the return) writes the distance matrix, the stop
\* coordinates, the fuel curve or the port data.
C22_MatrixFrozenAfterConstruction ==
    [][pc \notin {"call_weights", "call_matrix"} =>
          /\ dist' = dist
          /\ port_coords' = port_coords
          /\ fuel_curve' = fuel_curve
          /\ ports_data' = ports_data]_vars

\* A call that has returned: the search, both metric computations, a
\* schedule of two legs or more and the geometry have run over a matrix with
\* a routed length in it.
C22_Witness ==
    /\ pc = "returned"
    /\ optimized_metrics # None /\ standard_metrics # None
    /\ Len(eta_details) >= 2
    /\ ports_data # <<>>
    /\ \E i, j \in DOMAIN dist : dist[i][j] \in RoutedLengths

\* The sum of leg_travel_hours over the first k ETA entries, in hundredths.
RECURSIVE SumLegTravelHours(_)
SumLegTravelHours(k) ==
    IF k = 0 THEN 0 ELSE eta_details[k].leg_travel_hours + SumLegTravelHours(k - 1)

\* C27: the schedule and the metrics of the order returned sail at the same
\* speed: the leg_travel_hours of the ETA entries sum to travel_time_hours
\* less congestion_hours of optimized_metrics, up to half a hundredth for
\* each rounded value.
C27_ScheduleSailsAtMetricSpeed ==
    pc = "returned" =>
        LET sailing == optimized_metrics.travel_time_hours
                          - optimized_metrics.congestion_hours
            legs == SumLegTravelHours(Len(eta_details))
        IN  /\ 2 * (legs - sailing) <= Len(eta_details) + 1
            /\ 2 * (sailing - legs) <= Len(eta_details) + 1

(***************************************************************************)
(* SpecCallTwice: run_route_optimization is called a second time with the  *)
(* same arguments but for ports_data, which may be other port data; what   *)
(* the first call used and returned is kept in first_call.                 *)
(***************************************************************************)
InitCallTwice ==
    /\ InitCall
    /\ weights = None
    /\ vessel_specs \in {None, FullVesselSpecs}
    /\ start_datetime_str \in
           {[str |-> "2024-01-01 00:00:00"], [str |-> "2024-01-01T00:00:00Z"]}

\* The caller keeps the result of the call that has returned and calls again
\* (line 266), with port data of its choice.
CallAgain ==
    /\ pc = "returned"
    /\ first_call = None
    /\ first_call' = [ports_data |-> ports_data,
                      dist |-> dist,
                      optimized_indices |-> optimized_indices,
                      average_speed_kmh |-> average_speed_kmh,
                      start_datetime |-> start_datetime,
                      eta_details |-> eta_details,
                      optimized_metrics |-> optimized_metrics]
    /\ ports_data' \in CallPortsData(Len(port_coords))
    /\ pc' = "call_weights"
    /\ dist' = <<>>
    /\ optimized_indices' = <<>>
    /\ average_speed_kmh' = 0
    /\ start_datetime' = 0
    /\ eta_i' = 0
    /\ current_time' = 0
    /\ eta_details' = <<>>
    /\ fuel_weight' = Unset /\ time_weight' = Unset /\ congestion_weight' = Unset
    /\ optimized_metrics' = None
    /\ standard_metrics' = None
    /\ UNCHANGED <<port_coords, pair, sr_last, route_geometry, port_stay_hours,
                   total_congestion_hours, weights, fitVars, decodeVars, gaVars,
                   start_datetime_str, exception, apiVars, reviewVars>>

NextCallTwice == NextCall \/ CallAgain

SpecCallTwice == InitCallTwice /\ [][NextCallTwice]_vars

\* The second call has returned, and it sailed the order, the matrix, the
\* speed and the start time of the first.
SameSchedule ==
    /\ pc = "returned"
    /\ first_call # None
    /\ optimized_indices = first_call.optimized_indices
    /\ dist = first_call.dist
    /\ average_speed_kmh = first_call.average_speed_kmh
    /\ start_datetime = first_call.start_datetime

\* C21: two calls that sail the same order over the same matrix at the same
\* speed from the same start time, with the same port stay, return the same
\* ETA entries whatever their port data; their congestion_hours and their
\* travel_time_hours differ when the delays of the port data differ, and by
\* the same amount.
C21_EtaFreeOfCongestion ==
    SameSchedule =>
        /\ eta_details = first_call.eta_details
        /\ optimized_metrics.congestion_hours
              = calculate_route_congestion(optimized_indices, ports_data)
        /\ ports_data # first_call.ports_data =>
              /\ optimized_metrics.congestion_hours
                    # first_call.optimized_metrics.congestion_hours
              /\ optimized_metrics.travel_time_hours
                    # first_call.optimized_metrics.travel_time_hours
        /\ optimized_metrics.travel_time_hours - optimized_metrics.congestion_hours
              = first_call.optimized_metrics.travel_time_hours
                   - first_call.optimized_metrics.congestion_hours

\* Two such calls, the first without port data, the second with delays.
C21_Witness ==
    /\ SameSchedule
    /\ first_call.ports_data = <<>>
    /\ ports_data # <<>>
    /\ optimized_metrics.congestion_hours > 0
    /\ Len(eta_details) >= 2
    /\ eta_details = first_call.eta_details

(***************************************************************************)
(* The optimize endpoint (app.py, optimize_route): a request is validated,  *)
(* the arguments of run_route_optimization are built from the ship and the  *)
(* ports of the data base, the call is made and its outcome answered.       *)
(***************************************************************************)
\* The ship table: the id 1 is a ship, no other id is.
Ships == [id \in {1} |->
            [name |-> "ship", cruising_speed |-> 18, gross_tonnage |-> 90000,
             propulsion_power |-> 40, fuel_consumption_curve |-> CallFuelCurve,
             co2_factor |-> 3114]]

\* The port table: port_congestion_index of the ports 1..8, in percent; no
\* other id is a port.
Ports == <<0, 25, 26, 50, 51, 75, 76, 100>>

\* The tier of a congestion index (lines 686, 688, 690, 692).
TierOf(congestion_percentage) ==
    IF congestion_percentage <= 25 THEN 1
    ELSE IF congestion_percentage <= 50 THEN 2
    ELSE IF congestion_percentage <= 75 THEN 3
    ELSE 4

\* Tiers whose slope is applied to the whole index.
TierFormulaOfWholeIndex(tier, congestion_percentage) ==
    CASE tier = 1 -> congestion_percentage * 4
      [] tier = 2 -> congestion_percentage * 8
      [] tier = 3 -> congestion_percentage * 16
      [] OTHER -> congestion_percentage * 32

\* The formula of a tier (lines 687, 689, 691, 693), in hundredths of an hour.
TierFormula(tier, congestion_percentage) ==
    CASE tier = 1 -> congestion_percentage * 4
      [] tier = 2 -> 100 + (congestion_percentage - 25) * 8
      [] tier = 3 -> 300 + (congestion_percentage - 50) * 16
      [] OTHER -> 700 + (congestion_percentage - 75) * 32

\* Lines 678-701: a record for each id that is a port.
RECURSIVE BuildPortsData(_, _)
BuildPortsData(port_ids, k) ==
    IF k > Len(port_ids) THEN <<>>
    ELSE IF port_ids[k] \notin DOMAIN Ports THEN BuildPortsData(port_ids, k + 1)
    ELSE LET congestion_percentage == Ports[port_ids[k]]
         IN  <<[id |-> port_ids[k],
                congestion_hours |->
                    TierFormula(TierOf(congestion_percentage), congestion_percentage),
                congestion_percentage |-> congestion_percentage]>>
                 \o BuildPortsData(port_ids, k + 1)

\* portIds for N stops: none, N ports in a row of the table, or an id that is
\* no port in the first place.
PortIdLists(N) ==
    {<<>>} \cup
    (IF N = 0 THEN {}
     ELSE {[k \in 1..N |-> ((s + k - 1) % Len(Ports)) + 1] : s \in 0..(Len(Ports) - 1)}
            \cup {[k \in 1..N |-> IF k = 1 THEN Len(Ports) + 1 ELSE k]})

\* The payloads: a route of no stop, one stop or more; the id of a ship, of no
\* ship, or none (0); a start time; weights.
Requests ==
    UNION {[coords : {[k \in 1..N |-> LayoutPoint(k - 1)]},
            portIds : PortIdLists(N),
            selectedShipId : {0, 1, 2},
            start_datetime_str : StartInputs,
            weights : {None, [fuel |-> 50, time |-> 50],
                       [fuel |-> 30, time |-> 50, congestion |-> 100]}] :
           N \in 0..MaxCallStops}

\* bool(x) of a start time of the model.
Truthy(s) == s # None /\ s # [str |-> ""] /\ s # [int |-> 0]

InitEndpoint ==
    /\ pc = "request"
    /\ DecodeIdle /\ DistIdle /\ EtaIdle /\ CongIdle /\ WeightIdle /\ FitIdle
    /\ GAIdle /\ CallIdle /\ ReviewIdle
    /\ request \in Requests
    /\ response = None

Answer(status, body) ==
    /\ response' = [status |-> status, body |-> body]
    /\ pc' = "responded"

\* Lines 637-715: up to the call of run_route_optimization.
Handle ==
    /\ pc = "request"
    /\ IF ~(request.coords # <<>> /\ request.selectedShipId # 0
                /\ Truthy(request.start_datetime_str))
       THEN /\ Answer(400, "Invalid data: Route, shipId, and start time are required.")
            /\ UNCHANGED <<port_coords, fuel_curve, co2_factor, start_datetime_str,
                           port_stay_hours, ports_data, weights, vessel_specs>>
       ELSE IF request.selectedShipId \notin DOMAIN Ships
       THEN /\ Answer(404, "Selected ship not found.")
            /\ UNCHANGED <<port_coords, fuel_curve, co2_factor, start_datetime_str,
                           port_stay_hours, ports_data, weights, vessel_specs>>
       ELSE LET ship == Ships[request.selectedShipId]
            IN  /\ port_coords' = request.coords
                /\ fuel_curve' = ship.fuel_consumption_curve
                /\ co2_factor' = ship.co2_factor
                /\ start_datetime_str' = request.start_datetime_str
                /\ port_stay_hours' = 24 * TicksPerHour
                /\ ports_data' = BuildPortsData(request.portIds, 1)
                /\ weights' = IF request.weights # None THEN request.weights
                              ELSE [fuel |-> 50, time |-> 50, congestion |-> 50]
                /\ vessel_specs' = [k \in {"gross_tonnage", "propulsion_power",
                                           "cruising_speed", "name"} |-> ship[k]]
                /\ pc' = "call_weights"
                /\ UNCHANGED response
    /\ UNCHANGED <<reviewVars, request, decodeVars, dist, pair, sr_last, optimized_indices,
                   route_geometry, average_speed_kmh, start_datetime, eta_i,
                   current_time, eta_details, total_congestion_hours, fuel_weight,
                   time_weight, congestion_weight, metrics, fitness, prev_metrics,
                   prev_fitness, gaVars, optimized_metrics, standard_metrics,
                   exception, first_call>>

\* Lines 717-720: the result of the call, or the answer to its exception.
Respond ==
    /\ pc \in {"returned", "raised"}
    /\ request # None
    /\ IF pc = "returned"
       THEN Answer(200, "result")
       ELSE Answer(500, "An internal error occurred during the optimization process.")
    /\ UNCHANGED <<reviewVars, request, decodeVars, distVars, etaVars, congVars, weightVars, fitVars,
                   gaVars, callVars>>

NextEndpoint == Handle \/ NextCall \/ Respond

SpecEndpoint == InitEndpoint /\ [][NextEndpoint]_vars

\* C14: a request whose route has no stop, or one stop only, is answered with
\* a client-error rejection, never with an internal error (the weights of
\* the request being none or complete).
C14_InvalidDomainRejected ==
    (/\ pc = "responded"
     /\ Len(request.coords) <= 1
     /\ request.weights = None \/ WeightKeys \subseteq DOMAIN request.weights) =>
        response.status \in 400..499

\* C19: the tiers meet at their ends: for a port whose congestion index is
\* 25, 50 or 75 the delay of its record, which the formula of the lower tier
\* gives, is also the value of the formula of the next tier, 1, 3 and 7 hours
\* respectively.
C19_TiersMeetAtBoundaries ==
    (request # None /\ pc # "request") =>
        \A k \in DOMAIN ports_data :
            LET idx == ports_data[k].congestion_percentage
                tier == TierOf(idx)
            IN  idx \in {25, 50, 75} =>
                    /\ ports_data[k].congestion_hours = TierFormula(tier, idx)
                    /\ ports_data[k].congestion_hours = TierFormula(tier + 1, idx)
                    /\ ports_data[k].congestion_hours
                          = (CASE idx = 25 -> 100 [] idx = 50 -> 300 [] OTHER -> 700)

\* A request has been answered with a result whose ports were at the ends of
\* two tiers.
C19_Witness ==
    /\ pc = "responded"
    /\ response.status = 200
    /\ \E k, l \in DOMAIN ports_data :
          /\ ports_data[k].congestion_percentage = 50
          /\ ports_data[l].congestion_percentage = 75

\* C28: in the arguments the endpoint passes to the optimizer, the
\* congestion record at a position is the record of the port whose id the
\* request gives for the stop at that position.
C28_RecordsAlignedWithStops ==
    (request # None /\ pc = "call_weights") =>
        \A i \in 1..Len(ports_data) : ports_data[i].id = request.portIds[i]

(***************************************************************************)
(* Port reviews (app.py, add_port_review and delete_port_review).           *)
(*                                                                          *)
(* The server handles requests in parallel workers (threads of the Flask    *)
(* server, or processes), each with a data base session of its own.  A      *)
(* handler runs its query and, later, its write and commit; the requests of *)
(* other workers may be handled in between.  The table port_reviews has a   *)
(* primary key and no other unique constraint (lines 133-145).              *)
(***************************************************************************)
MaxReviewRequests == 3      \* review requests received in a behaviour

Workers == {1, 2}
UserIds == {1, 2}
PortIds == {1}              \* the ports of the table ports
RequestedPortIds == {1, 2}  \* the port ids of the requests: a port, no port
Ratings == {0, 3, 5}
Comments == {"", "good"}

\* A worker between two requests, with the status it answered last.
Waiting(status) == [pc |-> "idle", status |-> status]

InitReviews ==
    /\ pc = "reviews"
    /\ DecodeIdle /\ DistIdle /\ EtaIdle /\ CongIdle /\ WeightIdle /\ FitIdle
    /\ GAIdle /\ CallIdle /\ ApiIdle
    /\ port_reviews = {}
    /\ next_review_id = 1
    /\ utcnow = 0
    /\ handler = [w \in Workers |-> Waiting(0)]
    /\ requests_started = 0

\* The rows of a user for a port.
ReviewsOf(user_id, port_id) ==
    {r \in port_reviews : r.port_id = port_id /\ r.user_id = user_id}

\* What a step of a review handler leaves alone.
ReviewFrame ==
    UNCHANGED <<pc, decodeVars, distVars, etaVars, congVars, weightVars, fitVars,
                gaVars, callVars, apiVars>>

\* add_port_review, lines 803-820: the validation, the port, and the query
\* for a review of the user for the port (.first() without an order: any of
\* the rows found, or None, held as the id 0).
AddQuery(w) ==
    /\ handler[w].pc = "idle"
    /\ requests_started < MaxReviewRequests
    /\ requests_started' = requests_started + 1
    /\ \E user_id \in UserIds, port_id \in RequestedPortIds,
          rating \in Ratings, comment \in Comments :
          \E existing_review \in IF ReviewsOf(user_id, port_id) = {} THEN {0}
                                 ELSE {r.id : r \in ReviewsOf(user_id, port_id)} :
          handler' = [handler EXCEPT ![w] =
              IF rating = 0 \/ rating < 1 \/ rating > 5 THEN Waiting(400)
              ELSE IF port_id \notin PortIds THEN Waiting(404)
              ELSE [pc |-> "add", user_id |-> user_id, port_id |-> port_id,
                    rating |-> rating, comment |-> comment,
                    existing_review |-> existing_review]]
    /\ UNCHANGED <<port_reviews, next_review_id, utcnow>>
    /\ ReviewFrame

\* Lines 822-841: the update of the row found (which fails when the row is
\* gone), or the insert of a new row; then the commit.
AddWrite(w) ==
    /\ handler[w].pc = "add"
    /\ LET h == handler[w]
           comment == IF h.comment # "" THEN [str |-> h.comment] ELSE None
       IN  IF h.existing_review # 0
           THEN IF \E r \in port_reviews : r.id = h.existing_review
                THEN /\ port_reviews' =
                          {IF r.id = h.existing_review
                           THEN [r EXCEPT !.rating = h.rating, !.comment = comment,
                                          !.updated_at = utcnow]
                           ELSE r : r \in port_reviews}
                     /\ handler' = [handler EXCEPT ![w] = Waiting(200)]
                     /\ UNCHANGED next_review_id
                ELSE /\ handler' = [handler EXCEPT ![w] = Waiting(500)]
                     /\ UNCHANGED <<port_reviews, next_review_id>>
           ELSE /\ port_reviews' = port_reviews \cup
                      {[id |-> next_review_id, port_id |-> h.port_id,
                        user_id |-> h.user_id, rating |-> h.rating,
                        comment |-> comment, created_at |-> utcnow,
                        updated_at |-> utcnow]}
                /\ next_review_id' = next_review_id + 1
                /\ handler' = [handler EXCEPT ![w] = Waiting(201)]
    /\ utcnow' = utcnow + 1
    /\ UNCHANGED requests_started
    /\ ReviewFrame

\* delete_port_review, lines 846-851: the row of the id, the port and the
\* user, or 404.
DeleteQuery(w) ==
    /\ handler[w].pc = "idle"
    /\ requests_started < MaxReviewRequests
    /\ requests_started' = requests_started + 1
    /\ \E user_id \in UserIds, port_id \in RequestedPortIds,
          review_id \in 1..MaxReviewRequests :
          handler' = [handler EXCEPT ![w] =
              IF \E r \in ReviewsOf(user_id, port_id) : r.id = review_id
              THEN [pc |-> "delete", review |-> review_id]
              ELSE Waiting(404)]
    /\ UNCHANGED <<port_reviews, next_review_id, utcnow>>
    /\ ReviewFrame

\* Lines 853-855: the delete and the commit.
DeleteWrite(w) ==
    /\ handler[w].pc = "delete"
    /\ port_reviews' = {r \in port_reviews : r.id # handler[w].review}
    /\ handler' = [handler EXCEPT ![w] = Waiting(200)]
    /\ UNCHANGED <<next_review_id, utcnow, requests_started>>
    /\ ReviewFrame

NextReviews ==
    \E w \in Workers : AddQuery(w) \/ AddWrite(w) \/ DeleteQuery(w) \/ DeleteWrite(w)

SpecReviews == InitReviews /\ [][NextReviews]_vars

\* C30: the table holds at most one review of a user for a port.
C30_OneReviewPerUserAndPort ==
    \A r, q \in port_reviews :
        (r.user_id = q.user_id /\ r.port_id = q.port_id) => r = q

(***************************************************************************)
(* SpecDecode: a key vector is drawn (any vector of [0,1]^n the search may  *)
(* hold, ties included) and decoded.                                        *)
(***************************************************************************)
InitDecode ==
    /\ pc = "solution"
    /\ CallIdle /\ ApiIdle /\ ReviewIdle
    /\ DistIdle /\ EtaIdle /\ CongIdle /\ WeightIdle /\ FitIdle /\ GAIdle
    /\ \E N \in Stops : solution \in [1..(N - 1) -> Genes]
    /\ route_indices = <<>>

\* fitness_func line 358 / run_route_optimization line 401.
DecodeSolution ==
    /\ pc = "solution"
    /\ route_indices' \in Decode(solution)
    /\ pc' = "decoded"
    /\ UNCHANGED <<callVars, apiVars, reviewVars, solution, distVars, etaVars, congVars, weightVars, fitVars, gaVars>>

\* The search hands the next key vector to decode.
NextSolution ==
    /\ pc = "decoded"
    /\ \E N \in Stops : solution' \in [1..(N - 1) -> Genes]
    /\ route_indices' = <<>>
    /\ pc' = "solution"
    /\ UNCHANGED <<callVars, apiVars, reviewVars, distVars, etaVars, congVars, weightVars, fitVars, gaVars>>

NextDecode == DecodeSolution \/ NextSolution

SpecDecode == InitDecode /\ [][NextDecode]_vars

\* C1: every decoded order holds each non-origin stop index 1..N-1 exactly
\* once and never the origin 0, for every key vector, equal keys included.
C1_DecodeIsPermutation ==
    pc = "decoded" =>
        /\ Len(route_indices) = Len(solution)
        /\ \A s \in 1..Len(solution) :
              Cardinality({k \in DOMAIN route_indices : route_indices[k] = s}) = 1
        /\ \A k \in DOMAIN route_indices : route_indices[k] # 0

\* A vector with equal keys has been decoded.
C1_Witness ==
    /\ pc = "decoded"
    /\ Len(solution) >= 2
    /\ \E a, b \in DOMAIN solution : a # b /\ solution[a] = solution[b]

====
